---- MODULE Spec2Model ----
(***************************************************************************)
(* Model of the event-poster extraction engine (backend/app): the          *)
(* complexity scorer and route decider, the ExtractionPipeline state       *)
(* machine with its OCR -> Vision fallback, the FieldNormalizer and the    *)
(* FieldValidator, and the part of the /extract endpoint that validates    *)
(* force_route and maps the pipeline's outcome to an HTTP status.          *)
(* Spec is one request through the endpoint and the pipeline; SpecDecider, *)
(* SpecValidator, SpecNormalizer and SpecExtractor call RouteDecider,      *)
(* FieldValidator, FieldNormalizer and OCRExtractor on their own, on       *)
(* arguments drawn from bounded sets; SpecConcurrent serves two requests   *)
(* side by side, each with the objects the endpoint builds for it.         *)
(*                                                                         *)
(* Conventions.  A Python dict is a function whose DOMAIN is its key set,  *)
(* so "key in d" is  key \in DOMAIN d  and d.get(k, default) is KeyGet.    *)
(* A Python str that the code inspects is a sequence of one-character      *)
(* strings; opaque text (messages, provenance) is a TLA+ string.           *)
(* Confidences and densities are integers in hundredths (0.85 is 85);      *)
(* overall_complexity is in ten-thousandths (weights are hundredths).      *)
(***************************************************************************)
EXTENDS Integers, Sequences, FiniteSets, TLC

VARIABLES
    pc,              \* position of the request in extract_event_data / process
    image,           \* the uploaded image: [decodable, height, width, blur, edge, text]
    params,          \* {'lang', 'timezone', 'force_route'} passed to process
    complexity,      \* ComplexityScore computed by the scorer (PyNone before)
    route,           \* local variable route of process
    engine_lang,     \* language of the PaddleOCR engine held in OCRExtractor.ocr
    ocr_result,      \* dict returned by OCRExtractor.extract (PyNone before)
    ocr_envelope,    \* the dict built at the end of _ocr_first_route (PyNone before)
    route_override,  \* argument route_override of _vision_route
    preserve_ocr,    \* argument preserve_ocr of _vision_route
    t2j,             \* outcome of the text_to_json call: [kind, msg, value]
    i2j,             \* outcome of the image_to_json call: [kind, msg, value]
    result,          \* the envelope process works on (PyNone before extraction)
    calls,           \* the components invoked so far, in order
    exc,             \* the exception process raised ("" when none)
    http_status,     \* status of the HTTP response (0 before the response)
    fn,              \* the component operation exercised on its own ("" in a request)
    arg,             \* the argument handed to that operation
    ret,             \* what its calls so far returned or raised, in order
    lanes,           \* the requests served side by side: request -> its locals
    extractors       \* the OCRExtractor objects: extractor -> language of its engine

vars == <<pc, image, params, complexity, route, engine_lang, ocr_result,
          ocr_envelope, route_override, preserve_ocr, t2j, i2j, result,
          calls, exc, http_status, fn, arg, ret, lanes, extractors>>

----------------------------------------------------------------------------
(* Python values *)

\* Python None where a dict is expected (raw, preserve_ocr, a field entry).
PyNone == [py_none |-> TRUE]

\* Python None where a str is expected (force_route, route_override).
NoneStr == "<None>"

\* The empty dict {} and the empty list [].
EmptyDict == <<>>

\* d.get(k, default)
KeyGet(d, k, default) == IF k \in DOMAIN d THEN d[k] ELSE default

\* A field value: str (sequence of characters), number, list (its length),
\* dict (its size) or None.
StrV(s) == [k |-> "str", s |-> s, n |-> 0]
NumV(n) == [k |-> "num", s |-> <<>>, n |-> n]
ListV(n) == [k |-> "list", s |-> <<>>, n |-> n]
DictV(n) == [k |-> "dict", s |-> <<>>, n |-> n]
NoneV == [k |-> "none", s |-> <<>>, n |-> 0]

\* Python truthiness of a field value: None, "", 0, [] and {} are falsy.
Truthy(v) ==
    CASE v.k = "none" -> FALSE
      [] v.k = "str" -> Len(v.s) > 0
      [] OTHER -> v.n # 0

\* Truthiness of an optional str (None and "" are falsy).
TruthyStr(s) == s # NoneStr /\ s # ""

\* Truthiness of an optional dict (None and {} are falsy).
TruthyDict(d) == d # PyNone /\ DOMAIN d # {}

\* Absent confidence (the key is missing or null).
NoConf == -1000

----------------------------------------------------------------------------
(* Configuration: app/config.py *)

OCR_DEFAULT_LANG == "en"
BLUR_THRESHOLD == 100
EDGE_WEIGHT == 40
TEXT_WEIGHT == 60
COMPLEXITY_THRESHOLD == 7000

Min(a, b) == IF a < b THEN a ELSE b
Max(a, b) == IF a > b THEN a ELSE b

----------------------------------------------------------------------------
(* ComplexityScorer.calculate and RouteDecider.decide *)

\* The three signals come from OpenCV; the image record carries them.
\* overall_complexity = clamp(edge * EDGE_WEIGHT + text * TEXT_WEIGHT, 0, 1).
calculate(img) ==
    [blur_variance |-> img.blur,
     edge_density |-> img.edge,
     text_density |-> img.text,
     overall_complexity |->
        Min(10000, Max(0, img.edge * EDGE_WEIGHT + img.text * TEXT_WEIGHT)),
     is_blurry |-> img.blur < BLUR_THRESHOLD]

decide_m(c) ==
    IF c.overall_complexity > COMPLEXITY_THRESHOLD THEN "vision"
    ELSE IF c.text_density > 50 THEN "ocr_first"
    ELSE "vision"

decide_text_first_m(c) ==
    IF c.text_density > 50 /\ c.overall_complexity <= COMPLEXITY_THRESHOLD THEN "ocr_first"
    ELSE "vision"

decide_complexity_last_m(c) ==
    IF c.is_blurry THEN "vision"
    ELSE IF c.text_density > 50 /\ ~c.is_blurry THEN "ocr_first"
    ELSE "vision"

decide_inclusive_m(c) ==
    IF c.is_blurry THEN "vision"
    ELSE IF c.overall_complexity > COMPLEXITY_THRESHOLD THEN "vision"
    ELSE IF c.text_density >= 50 /\ ~c.is_blurry THEN "ocr_first"
    ELSE "vision"

decide(c) ==
    IF c.is_blurry THEN "vision"
    ELSE IF c.overall_complexity > COMPLEXITY_THRESHOLD THEN "vision"
    ELSE IF c.text_density > 50 /\ ~c.is_blurry THEN "ocr_first"
    ELSE "vision"

----------------------------------------------------------------------------
(* Python str operations used by the normalizer *)

DigitChars == <<"0", "1", "2", "3", "4", "5", "6", "7", "8", "9">>
UpperChars == <<"A", "B", "C", "D", "E", "F", "G", "H", "I", "J", "K", "L", "M",
                "N", "O", "P", "Q", "R", "S", "T", "U", "V", "W", "X", "Y", "Z">>
LowerChars == <<"a", "b", "c", "d", "e", "f", "g", "h", "i", "j", "k", "l", "m",
                "n", "o", "p", "q", "r", "s", "t", "u", "v", "w", "x", "y", "z">>

IsDigit(c) == \E i \in 1..10 : DigitChars[i] = c
IsSpace(c) == c \in {" ", "\t", "\n"}
DigitVal(c) == CHOOSE i \in 0..9 : DigitChars[i + 1] = c

LowerChar(c) ==
    IF \E i \in 1..26 : UpperChars[i] = c
    THEN LowerChars[CHOOSE i \in 1..26 : UpperChars[i] = c]
    ELSE c

\* str.lower()
lower(s) == [i \in 1..Len(s) |-> LowerChar(s[i])]

\* str.strip()
strip(s) ==
    IF \A i \in 1..Len(s) : IsSpace(s[i]) THEN <<>>
    ELSE LET first == CHOOSE i \in 1..Len(s) :
                          ~IsSpace(s[i]) /\ \A k \in 1..(i - 1) : IsSpace(s[k])
             last == CHOOSE i \in 1..Len(s) :
                          ~IsSpace(s[i]) /\ \A k \in (i + 1)..Len(s) : IsSpace(s[k])
         IN SubSeq(s, first, last)

\* str.startswith(p) and  p in s
startswith(s, p) == Len(s) >= Len(p) /\ SubSeq(s, 1, Len(p)) = p
contains(s, p) ==
    \E i \in 1..(Len(s) - Len(p) + 1) : SubSeq(s, i, i + Len(p) - 1) = p

\* The index after the run of whitespace that starts at i (regex \s*).
WsEnd(s, i) ==
    CHOOSE j \in i..(Len(s) + 1) :
        /\ \A k \in i..(j - 1) : IsSpace(s[k])
        /\ (j = Len(s) + 1 \/ ~IsSpace(s[j]))

\* f"{hour:02d}" for the hours the patterns can yield (at most two digits).
Format02d(h) == <<DigitChars[(h \div 10) + 1], DigitChars[(h % 10) + 1]>>

----------------------------------------------------------------------------
(* FieldNormalizer: the value rewriters *)

\* A match of r'[ap]m' (re.IGNORECASE) at index j.
IsMeridiemAt(s, j) ==
    /\ j + 1 <= Len(s)
    /\ LowerChar(s[j]) \in {"a", "p"}
    /\ LowerChar(s[j + 1]) = "m"

\* 12-hour to 24-hour: pm and hour < 12 adds 12, am and hour == 12 gives 0.
To24h(hour, meridiem) ==
    IF meridiem = "pm" /\ hour < 12 THEN hour + 12
    ELSE IF meridiem = "am" /\ hour = 12 THEN 0
    ELSE hour

\* r'(\d{1,2}):(\d{2})\s*([ap]m)?' matched at index i with d hour digits.
HourMinuteAt(s, i, d) ==
    /\ i + d + 2 <= Len(s)
    /\ \A k \in i..(i + d - 1) : IsDigit(s[k])
    /\ s[i + d] = ":"
    /\ IsDigit(s[i + d + 1])
    /\ IsDigit(s[i + d + 2])

\* r'(\d{1,2})\s*([ap]m)' matched at index i with d hour digits.
HourMeridiemAt(s, i, d) ==
    /\ i + d - 1 <= Len(s)
    /\ \A k \in i..(i + d - 1) : IsDigit(s[k])
    /\ IsMeridiemAt(s, WsEnd(s, i + d))

HourOf(s, i, d) ==
    IF d = 2 THEN 10 * DigitVal(s[i]) + DigitVal(s[i + 1]) ELSE DigitVal(s[i])

\* _convert_to_24h: <<>> stands for the None it returns when nothing matches.
convert_to_24h(s) ==
    IF \E i \in 1..Len(s), d \in {1, 2} : HourMinuteAt(s, i, d)
    THEN LET i == CHOOSE i \in 1..Len(s) :
                     /\ \E d \in {1, 2} : HourMinuteAt(s, i, d)
                     /\ \A k \in 1..(i - 1), d \in {1, 2} : ~HourMinuteAt(s, k, d)
             d == IF HourMinuteAt(s, i, 2) THEN 2 ELSE 1
             j == WsEnd(s, i + d + 3)
             meridiem == IF IsMeridiemAt(s, j)
                         THEN <<LowerChar(s[j]), LowerChar(s[j + 1])>>
                         ELSE <<>>
             mer == IF meridiem = <<"p", "m">> THEN "pm"
                    ELSE IF meridiem = <<"a", "m">> THEN "am" ELSE "none"
         IN Format02d(To24h(HourOf(s, i, d), mer))
            \o <<":", s[i + d + 1], s[i + d + 2]>>
    ELSE IF \E i \in 1..Len(s), d \in {1, 2} : HourMeridiemAt(s, i, d)
    THEN LET i == CHOOSE i \in 1..Len(s) :
                     /\ \E d \in {1, 2} : HourMeridiemAt(s, i, d)
                     /\ \A k \in 1..(i - 1), d \in {1, 2} : ~HourMeridiemAt(s, k, d)
             d == IF HourMeridiemAt(s, i, 2) THEN 2 ELSE 1
             j == WsEnd(s, i + d)
             mer == IF LowerChar(s[j]) = "p" THEN "pm" ELSE "am"
         IN Format02d(To24h(HourOf(s, i, d), mer)) \o <<":", "0", "0">>
    ELSE <<>>

\* The index after a match of r'\s*-\s*|\s+to\s+' (re.IGNORECASE) that
\* starts at i, or 0 when the pattern does not match there.
SepEnd(s, i) ==
    LET j == WsEnd(s, i)
    IN IF j <= Len(s) /\ s[j] = "-" THEN WsEnd(s, j + 1)
       ELSE IF /\ j > i
               /\ j + 1 <= Len(s)
               /\ LowerChar(s[j]) = "t"
               /\ LowerChar(s[j + 1]) = "o"
               /\ WsEnd(s, j + 2) > j + 2
            THEN WsEnd(s, j + 2)
            ELSE 0

\* re.split(r'\s*-\s*|\s+to\s+', s): scanning from i, the current part began at start.
RECURSIVE re_split_from(_, _, _)
re_split_from(s, i, start) ==
    IF i > Len(s) THEN <<SubSeq(s, start, Len(s))>>
    ELSE IF SepEnd(s, i) # 0
         THEN <<SubSeq(s, start, i - 1)>> \o re_split_from(s, SepEnd(s, i), SepEnd(s, i))
         ELSE re_split_from(s, i + 1, start)

re_split(s) == re_split_from(s, 1, 1)

normalize_time(s) ==
    LET parts == re_split(s)
        ranged == /\ (contains(s, <<"-">>) \/ contains(lower(s), <<"t", "o">>))
                  /\ Len(parts) = 2
                  /\ convert_to_24h(strip(parts[1])) # <<>>
                  /\ convert_to_24h(strip(parts[2])) # <<>>
    IN IF ranged
       THEN convert_to_24h(strip(parts[1])) \o <<"-">> \o convert_to_24h(strip(parts[2]))
       ELSE IF convert_to_24h(s) # <<>> THEN convert_to_24h(s) ELSE s

\* re.sub(r'\D', '', phone)
DigitsOf(s) == SelectSeq(s, IsDigit)

normalize_phone_m(s) ==
    LET digits == DigitsOf(s)
    IN IF Len(digits) = 10
       THEN <<"(">> \o SubSeq(digits, 1, 3) \o <<")", " ">> \o SubSeq(digits, 4, 6)
            \o <<"-">> \o SubSeq(digits, 7, 10)
       ELSE IF Len(digits) = 11
       THEN <<"+", "1", " ", "(">> \o SubSeq(digits, 2, 4) \o <<")", " ">>
            \o SubSeq(digits, 5, 7) \o <<"-">> \o SubSeq(digits, 8, 11)
       ELSE s

normalize_phone(s) ==
    LET digits == DigitsOf(s)
    IN IF Len(digits) = 10
       THEN <<"(">> \o SubSeq(digits, 1, 3) \o <<")", " ">> \o SubSeq(digits, 4, 6)
            \o <<"-">> \o SubSeq(digits, 7, 10)
       ELSE IF Len(digits) = 11 /\ digits[1] = "1"
       THEN <<"+", "1", " ", "(">> \o SubSeq(digits, 2, 4) \o <<")", " ">>
            \o SubSeq(digits, 5, 7) \o <<"-">> \o SubSeq(digits, 8, 11)
       ELSE s

normalize_email(s) == strip(lower(s))

HttpPrefix == <<"h", "t", "t", "p", ":", "/", "/">>
HttpsPrefix == <<"h", "t", "t", "p", "s", ":", "/", "/">>
WwwPrefix == <<"w", "w", "w", ".">>

normalize_url_m(s) ==
    LET url == strip(s)
    IN IF contains(url, <<".">>) \/ startswith(url, WwwPrefix)
       THEN HttpsPrefix \o url
       ELSE url

normalize_url_untrimmed_m(s) ==
    IF ~(startswith(s, HttpPrefix) \/ startswith(s, HttpsPrefix))
    THEN IF contains(s, <<".">>) /\ ~startswith(s, WwwPrefix)
         THEN HttpsPrefix \o s
         ELSE IF startswith(s, WwwPrefix) THEN HttpsPrefix \o s
         ELSE s
    ELSE s

normalize_url(s) ==
    LET url == strip(s)
    IN IF ~(startswith(url, HttpPrefix) \/ startswith(url, HttpsPrefix))
       THEN IF contains(url, <<".">>) /\ ~startswith(url, WwwPrefix)
            THEN HttpsPrefix \o url
            ELSE IF startswith(url, WwwPrefix) THEN HttpsPrefix \o url
            ELSE url
       ELSE url

----------------------------------------------------------------------------
(* FieldNormalizer.normalize *)

\* dict[k] = v
DictSet(d, k, v) == (k :> v) @@ d

IsIsoDate(s) ==
    /\ Len(s) = 10
    /\ \A i \in {1, 2, 3, 4, 6, 7, 9, 10} : IsDigit(s[i])
    /\ s[5] = "-"
    /\ s[8] = "-"

\* The free-text dates the date parser is taken to recognise, with the date
\* each one denotes; any other text that is not an ISO date is not parsed.
KnownDates ==
    { << <<"M", "a", "r", " ", "1", "5", " ", "2", "0", "2", "6">>,
         <<"2", "0", "2", "6", "-", "0", "3", "-", "1", "5">> >> }

\* dateparser.parse(date_str, settings={'PREFER_DATES_FROM': 'future'}),
\* followed by .date().isoformat(); <<>> stands for None (not parsed).
dateparser_parse(s) ==
    IF IsIsoDate(s) THEN s
    ELSE IF \E p \in KnownDates : p[1] = s
         THEN (CHOOSE p \in KnownDates : p[1] = s)[2]
         ELSE <<>>

normalize_date(s) == IF dateparser_parse(s) # <<>> THEN dateparser_parse(s) ELSE s

DATE_FIELDS == {"date", "start_date", "end_date"}
TIME_FIELDS == {"time", "start_time", "end_time"}
URL_FIELDS == {"website", "registration_link"}

FieldKind(f) ==
    CASE f \in DATE_FIELDS -> "date"
      [] f \in TIME_FIELDS -> "time"
      [] f = "contact_phone" -> "phone"
      [] f = "contact_email" -> "email"
      [] f \in URL_FIELDS -> "url"
      [] OTHER -> "other"

\* The order in which normalize visits the fields it rewrites.
NormalizeOrder ==
    <<"date", "start_date", "end_date", "time", "start_time", "end_time",
      "contact_phone", "contact_email", "website", "registration_link">>

\* "if f in fields and fields[f]" and then "if value": the field is rewritten.
IsRewritten(fields, f) ==
    /\ f \in DOMAIN fields
    /\ TruthyDict(fields[f])
    /\ Truthy(KeyGet(fields[f], "value", NoneV))

\* The exception the rewriter of this kind raises on value v ("" when none).
\* _normalize_date catches every exception; the others assume a str:
\* '-' in 5 and re.sub on a non-str raise TypeError, .lower() and .strip()
\* on a non-str raise AttributeError.
RewriteException(kind, v) ==
    IF v.k = "str" \/ kind = "date" THEN ""
    ELSE IF kind = "phone" THEN "TypeError"
    ELSE IF kind = "time" /\ v.k = "num" THEN "TypeError"
    ELSE "AttributeError"

RewriteValue(kind, v) ==
    IF v.k # "str" THEN v
    ELSE CASE kind = "date" -> StrV(normalize_date(v.s))
           [] kind = "time" -> StrV(normalize_time(v.s))
           [] kind = "phone" -> StrV(normalize_phone(v.s))
           [] kind = "email" -> StrV(normalize_email(v.s))
           [] kind = "url" -> StrV(normalize_url(v.s))

NormalizeEntry_m(kind, e) ==
    DictSet(DictSet(e, "value", RewriteValue(kind, e["value"])), "normalized", TRUE)

\* "if normalized != value": store the value and set normalized = True.
NormalizeEntry(kind, e) ==
    LET nv == RewriteValue(kind, e["value"])
    IN IF nv # e["value"]
       THEN DictSet(DictSet(e, "value", nv), "normalized", TRUE)
       ELSE e

normalize_fields(fields) ==
    [f \in DOMAIN fields |->
        IF FieldKind(f) # "other" /\ IsRewritten(fields, f)
        THEN NormalizeEntry(FieldKind(f), fields[f])
        ELSE fields[f]]

\* The exception normalize raises on this envelope: that of the first field,
\* in visiting order, whose rewriter raises ("" when it returns).
normalize_exception(envelope) ==
    LET fields == KeyGet(envelope, "fields", EmptyDict)
        Bad(i) == /\ IsRewritten(fields, NormalizeOrder[i])
                  /\ RewriteException(FieldKind(NormalizeOrder[i]),
                                      fields[NormalizeOrder[i]]["value"]) # ""
    IN IF \E i \in 1..Len(NormalizeOrder) : Bad(i)
       THEN LET i == CHOOSE i \in 1..Len(NormalizeOrder) :
                        Bad(i) /\ \A k \in 1..(i - 1) : ~Bad(k)
            IN RewriteException(FieldKind(NormalizeOrder[i]),
                                fields[NormalizeOrder[i]]["value"])
       ELSE ""

normalize(envelope) ==
    DictSet(envelope, "fields", normalize_fields(KeyGet(envelope, "fields", EmptyDict)))

\* The envelope as normalize leaves it when it raises: the dict is rewritten
\* in place, so the fields visited before the one whose rewriter raises are
\* already normalized.
normalize_interrupted(envelope) ==
    LET fields == KeyGet(envelope, "fields", EmptyDict)
        Bad(i) == /\ IsRewritten(fields, NormalizeOrder[i])
                  /\ RewriteException(FieldKind(NormalizeOrder[i]),
                                      fields[NormalizeOrder[i]]["value"]) # ""
        stop == CHOOSE i \in 1..Len(NormalizeOrder) :
                    Bad(i) /\ \A k \in 1..(i - 1) : ~Bad(k)
        Visited(f) == \E k \in 1..(stop - 1) : NormalizeOrder[k] = f
    IN [envelope EXCEPT !["fields"] =
           [f \in DOMAIN fields |->
               IF Visited(f) /\ IsRewritten(fields, f)
               THEN NormalizeEntry(FieldKind(f), fields[f])
               ELSE fields[f]]]

----------------------------------------------------------------------------
(* FieldValidator *)

\* CRITICAL_FIELDS, in the order the lists built from it are written here
\* (the code iterates a set; only membership is meaningful).
CRITICAL_FIELDS == <<"event_name", "date", "venue_name">>

\* The order in which the fields of a field map are listed (the code follows
\* the insertion order of the dict; only membership is meaningful).
FIELD_ORDER ==
    <<"event_name", "date", "time", "venue_name", "venue_address", "description",
      "organizer", "contact_email", "contact_phone", "ticket_price", "website",
      "registration_link", "start_date", "end_date", "start_time", "end_time">>

LOW_CONFIDENCE == 60
MIN_CONFIDENCE == 50

\* "field_data and isinstance(field_data, dict)" and a numeric confidence.
HasConfidence(fields, f) ==
    /\ TruthyDict(fields[f])
    /\ KeyGet(fields[f], "confidence", NoConf) # NoConf

RECURSIVE SumConfidence(_, _)
SumConfidence(fields, names) ==
    IF names = {} THEN 0
    ELSE LET f == CHOOSE x \in names : TRUE
         IN fields[f]["confidence"] + SumConfidence(fields, names \ {f})

RoundMean_m(total, count, above) == total \div count

\* round(total / count, 2) on hundredths: the nearest hundredth.  When the
\* mean lies halfway between two hundredths, the double that holds the
\* quotient is a little above or a little below the midpoint and round
\* follows it: above tells which.
RoundMean(total, count, above) ==
    LET q == total \div count
        r == total % count
    IN IF 2 * r < count THEN q
       ELSE IF 2 * r > count THEN q + 1
       ELSE IF above THEN q + 1 ELSE q

calculate_overall_confidence(fields, above) ==
    LET names == {f \in DOMAIN fields : HasConfidence(fields, f)}
    IN IF names = {} THEN 0
       ELSE RoundMean(SumConfidence(fields, names), Cardinality(names), above)

\* "not field_data or not field_data.get('value')"
IsMissing(fields, f) ==
    \/ f \notin DOMAIN fields
    \/ ~TruthyDict(fields[f])
    \/ ~Truthy(KeyGet(fields[f], "value", NoneV))

check_critical_fields(fields) ==
    SelectSeq(CRITICAL_FIELDS, LAMBDA f : IsMissing(fields, f))

IsLowConfidence_m(fields, f, threshold) ==
    /\ f \in DOMAIN fields
    /\ TruthyDict(fields[f])
    /\ KeyGet(fields[f], "confidence", NoConf) # NoConf
    /\ fields[f]["confidence"] < threshold

\* A field with a value but a confidence below the threshold.
IsLowConfidence(fields, f, threshold) ==
    /\ f \in DOMAIN fields
    /\ TruthyDict(fields[f])
    /\ Truthy(KeyGet(fields[f], "value", NoneV))
    /\ KeyGet(fields[f], "confidence", NoConf) # NoConf
    /\ fields[f]["confidence"] < threshold

check_low_confidence_fields(fields) ==
    SelectSeq(FIELD_ORDER, LAMBDA f : IsLowConfidence(fields, f, LOW_CONFIDENCE))

\* Warning(...).model_dump(); unset members are None.
Warning(type, fields, confidence, message) ==
    [type |-> type, fields |-> fields, confidence |-> confidence, message |-> message]

validate_warnings_falsy_m(fields, overall_confidence) ==
    LET missing_critical == check_critical_fields(fields)
        low_confidence_fields == check_low_confidence_fields(fields)
    IN (IF missing_critical # <<>>
        THEN <<Warning("missing_critical_fields", missing_critical, NoConf,
                       <<"Missing critical fields", missing_critical>>)>>
        ELSE <<>>)
       \o
       (IF overall_confidence # 0 /\ overall_confidence < LOW_CONFIDENCE
        THEN <<Warning("low_confidence", PyNone, overall_confidence,
                       <<"Overall confidence is low", overall_confidence>>)>>
        ELSE <<>>)
       \o
       (IF low_confidence_fields # <<>>
        THEN <<Warning("low_field_confidence", low_confidence_fields, NoConf,
                       <<"Some fields have low confidence", low_confidence_fields>>)>>
        ELSE <<>>)

validate_warnings(fields, overall_confidence) ==
    LET missing_critical == check_critical_fields(fields)
        low_confidence_fields == check_low_confidence_fields(fields)
    IN (IF missing_critical # <<>>
        THEN <<Warning("missing_critical_fields", missing_critical, NoConf,
                       <<"Missing critical fields", missing_critical>>)>>
        ELSE <<>>)
       \o
       (IF overall_confidence < LOW_CONFIDENCE
        THEN <<Warning("low_confidence", PyNone, overall_confidence,
                       <<"Overall confidence is low", overall_confidence>>)>>
        ELSE <<>>)
       \o
       (IF low_confidence_fields # <<>>
        THEN <<Warning("low_field_confidence", low_confidence_fields, NoConf,
                       <<"Some fields have low confidence", low_confidence_fields>>)>>
        ELSE <<>>)

validate_m(envelope, above) ==
    DictSet(envelope, "confidence",
            calculate_overall_confidence(KeyGet(envelope, "fields", EmptyDict), above))

validate(envelope, above) ==
    LET fields == KeyGet(envelope, "fields", EmptyDict)
        overall_confidence == calculate_overall_confidence(fields, above)
    IN DictSet(DictSet(envelope, "confidence", overall_confidence),
               "warnings", validate_warnings(fields, overall_confidence))

is_extraction_sufficient_m(envelope) ==
    LET fields == KeyGet(envelope, "fields", EmptyDict)
        overall_confidence == KeyGet(envelope, "confidence", 0)
        missing_critical == check_critical_fields(fields)
    IN IF Len(missing_critical) > 2 THEN FALSE
       ELSE IF overall_confidence < MIN_CONFIDENCE THEN FALSE
       ELSE TRUE

\* is_extraction_sufficient(extraction_result), min_confidence = 0.5
is_extraction_sufficient(envelope) ==
    LET fields == KeyGet(envelope, "fields", EmptyDict)
        overall_confidence == KeyGet(envelope, "confidence", 0)
        missing_critical == check_critical_fields(fields)
    IN IF Len(missing_critical) >= 2 THEN FALSE
       ELSE IF overall_confidence < MIN_CONFIDENCE THEN FALSE
       ELSE TRUE

----------------------------------------------------------------------------
(* OCRExtractor *)

\* _get_region: mean of the four corner ordinates against the image thirds.
get_region(bbox, height) ==
    LET ysum == bbox[1][2] + bbox[2][2] + bbox[3][2] + bbox[4][2]
    IN IF 3 * ysum < 4 * height THEN "top"
       ELSE IF 3 * ysum < 8 * height THEN "middle"
       ELSE "bottom"

\* LayoutBlock(text=..., conf=..., bbox=..., position=...) for one engine line.
LayoutBlock(line, height) ==
    [text |-> line.text, conf |-> line.confidence, bbox |-> line.bbox,
     position |-> get_region(line.bbox, height)]

\* key=lambda b: (b.bbox[0][1], b.bbox[0][0])
ReadsBefore(a, b) ==
    \/ a.bbox[1][2] < b.bbox[1][2]
    \/ a.bbox[1][2] = b.bbox[1][2] /\ a.bbox[1][1] < b.bbox[1][1]

\* Insert block b into the sorted sequence, after the blocks with an equal key.
RECURSIVE InsertBlock(_, _)
InsertBlock(sorted, b) ==
    IF sorted = <<>> THEN <<b>>
    ELSE IF ReadsBefore(b, Head(sorted)) THEN <<b>> \o sorted
    ELSE <<Head(sorted)>> \o InsertBlock(Tail(sorted), b)

\* _sort_blocks: sorted() is stable.
RECURSIVE sort_blocks(_)
sort_blocks(blocks) ==
    IF blocks = <<>> THEN <<>>
    ELSE InsertBlock(sort_blocks(SubSeq(blocks, 1, Len(blocks) - 1)),
                     blocks[Len(blocks)])

\* The languages the OCR engine can be built for; PaddleOCR(lang=...) raises
\* for any other.
SupportedLangs == {"en", "fr"}

\* "if lang and lang != self.config.OCR_DEFAULT_LANG": the engine is rebuilt.
Reinitializes(lang) == TruthyStr(lang) /\ lang # OCR_DEFAULT_LANG

\* The dict extract returns for an engine outcome [kind, lines, msg]; the
\* text is the sequence of block texts that '\n'.join puts one per line.
extract_result(outcome, height) ==
    IF outcome.kind = "raise"
    THEN [text |-> <<>>, blocks |-> <<>>, raw |-> <<>>, error |-> outcome.msg]
    ELSE IF outcome.lines = <<>>
    THEN [text |-> <<>>, blocks |-> <<>>, raw |-> <<>>]
    ELSE LET blocks == sort_blocks([i \in 1..Len(outcome.lines) |->
                                       LayoutBlock(outcome.lines[i], height)])
         IN [text |-> [i \in 1..Len(blocks) |-> blocks[i].text],
             blocks |-> blocks,
             raw |-> outcome.lines]

----------------------------------------------------------------------------
(* ExtractionPipeline: the envelopes it builds *)

\* The result dict built at the end of _ocr_first_route.
ocr_first_envelope(c, ocr, llm_result) ==
    [type |-> "event_poster",
     route |-> "ocr_first",
     complexity_score |-> c,
     fields |-> KeyGet(llm_result, "fields", EmptyDict),
     extra |-> KeyGet(llm_result, "extra", <<>>),
     raw |-> [ocr_text |-> ocr.text,
              layout_blocks |-> ocr.blocks,
              debug |-> [blur |-> c.blur_variance,
                         edge_density |-> c.edge_density,
                         cc_count |-> Len(ocr.blocks)]]]

route_name_m(override) == "vision"

\* route_name = route_override or "vision"
route_name(override) == IF TruthyStr(override) THEN override ELSE "vision"

vision_error_envelope_m(c, override, preserve, msg) ==
    [type |-> "event_poster",
     route |-> IF TruthyStr(override) THEN override ELSE "vision",
     complexity_score |-> c,
     fields |-> EmptyDict,
     extra |-> <<>>,
     raw |-> [debug |-> [blur |-> c.blur_variance, edge_density |-> c.edge_density]],
     error |-> msg]

\* The dict _vision_route returns when image_to_json fails with message msg.
vision_error_envelope(c, override, preserve, msg) ==
    [type |-> "event_poster",
     route |-> route_name(override),
     complexity_score |-> c,
     fields |-> EmptyDict,
     extra |-> <<>>,
     raw |-> preserve,
     error |-> msg]

\* The result dict _vision_route builds when image_to_json succeeds.
vision_envelope(c, override, preserve, llm_result) ==
    [type |-> "event_poster",
     route |-> route_name(override),
     complexity_score |-> c,
     fields |-> KeyGet(llm_result, "fields", EmptyDict),
     extra |-> KeyGet(llm_result, "extra", <<>>),
     raw |-> IF TruthyDict(preserve) THEN preserve
             ELSE [debug |-> [blur |-> c.blur_variance,
                              edge_density |-> c.edge_density]]]

preserve_after_rejection_m(envelope) == PyNone

\* The preserve_ocr argument of the fallback call after a rejected
\* extraction: preserve_ocr=result['raw'].
preserve_after_rejection(envelope) == envelope.raw

----------------------------------------------------------------------------
(* The requests and the port behaviours the model explores *)

\* The most lines the OCR engine reports for one image.
MaxLines == 2

\* Decodable images differ in the three signals the scorer measures; bytes
\* that do not decode carry none.
Images ==
    {[decodable |-> TRUE, height |-> 90, blur |-> b, edge |-> e, text |-> t] :
        b \in {50, 150}, e \in {0, 100}, t \in {40, 60}}
    \cup {[decodable |-> FALSE, height |-> 0, blur |-> 0, edge |-> 0, text |-> 0]}

Langs == {"en", "fr", "xx"}
ForceRoutes == {NoneStr, "", "ocr_first", "vision", "bogus"}

Params == [lang : Langs, timezone : {"UTC"}, force_route : ForceRoutes]

\* Lines the engine can report: [[bbox], (text, confidence)].
LineSamples ==
    {[bbox |-> << <<5, 70>>, <<50, 70>>, <<50, 80>>, <<5, 80>> >>,
      text |-> "Hall 4", confidence |-> 80],
     [bbox |-> << <<5, 10>>, <<50, 10>>, <<50, 20>>, <<5, 20>> >>,
      text |-> "EXPO 2026", confidence |-> 95]}

RECURSIVE SeqsUpTo(_, _)
SeqsUpTo(S, n) ==
    IF n = 0 THEN {<<>>}
    ELSE SeqsUpTo(S, n - 1)
         \cup {Append(q, x) : q \in {r \in SeqsUpTo(S, n - 1) : Len(r) = n - 1}, x \in S}

\* self.ocr.ocr(img, cls=True): it raises, or reports some lines (maybe none).
EngineOutcomes ==
    {[kind |-> "raise", lines |-> <<>>, msg |-> "engine failure"]}
    \cup {[kind |-> "return", lines |-> q, msg |-> ""] : q \in SeqsUpTo(LineSamples, MaxLines)}

Entry(v, c, src) == [value |-> v, confidence |-> c, source |-> src]

SName == StrV(<<"E", "x", "p", "o">>)
SVenue == StrV(<<"H", "a", "l", "l">>)
SIsoDate == StrV(<<"2", "0", "2", "6", "-", "0", "3", "-", "1", "5">>)
STextDate == StrV(<<"M", "a", "r", " ", "1", "5", " ", "2", "0", "2", "6">>)
STimeRange == StrV(<<"9", "a", "m", "-", "5", "p", "m">>)
SEmail == StrV(<<"A", "@", "B", ".", "c", " ">>)
SSite == StrV(<<"w", "w", "w", ".", "x", ".", "i", "o">>)

ExtraSample == <<[key |-> "dress_code", value |-> StrV(<<"s", "u", "i", "t">>),
                  confidence |-> 70, source |-> "line 16"]>>

\* Responses of the field-extraction port that carry no error.
Responses ==
    { \* every critical field, values the normalizer rewrites
      [fields |-> [event_name |-> Entry(SName, 95, "line 1"),
                   date |-> Entry(SIsoDate, 90, "line 2"),
                   venue_name |-> Entry(SVenue, 92, "line 4"),
                   time |-> Entry(STimeRange, 85, "line 3"),
                   contact_email |-> Entry(SEmail, 90, "line 11")],
       extra |-> ExtraSample],
      \* one critical field missing, mean confidence 0.6
      [fields |-> [event_name |-> Entry(SName, 80, "line 1"),
                   date |-> Entry(STextDate, 40, "line 2")],
       extra |-> <<>>],
      \* two critical fields missing
      [fields |-> [event_name |-> Entry(SName, 95, "top banner")],
       extra |-> <<>>],
      \* every critical field, low confidence
      [fields |-> [event_name |-> Entry(SName, 30, "line 1"),
                   date |-> Entry(SIsoDate, 40, "line 2"),
                   venue_name |-> Entry(SVenue, 40, "line 4")],
       extra |-> <<>>],
      \* a numeric value in a field the normalizer rewrites
      [fields |-> [event_name |-> Entry(SName, 95, "line 1"),
                   date |-> Entry(SIsoDate, 90, "line 2"),
                   venue_name |-> Entry(SVenue, 92, "line 4"),
                   contact_phone |-> Entry(NumV(5551234), 85, "line 12")],
       extra |-> <<>>],
      \* null entries and null values, as the prompt allows for missing fields
      [fields |-> [event_name |-> Entry(SName, 90, "line 1"),
                   date |-> PyNone,
                   venue_name |-> Entry(NoneV, 0, ""),
                   website |-> Entry(SSite, 50, "line 14")],
       extra |-> <<>>],
      \* confidences outside [0, 1]
      [fields |-> [event_name |-> Entry(SName, 150, "line 1"),
                   date |-> Entry(SIsoDate, 120, "line 2"),
                   venue_name |-> Entry(SVenue, 110, "line 4")],
       extra |-> <<>>],
      \* no 'fields' key at all
      [extra |-> ExtraSample] }

ErrorMessages == {"429 quota exceeded", "Expecting value: line 1 column 1"}

\* What a call of text_to_json or image_to_json does: it returns a dict (with
\* an 'error' key for a structured error) or raises.
PortOutcomes ==
    {[kind |-> "return", value |-> r, msg |-> ""] : r \in Responses}
    \cup {[kind |-> "return",
           value |-> [fields |-> EmptyDict, extra |-> <<>>, error |-> m],
           msg |-> ""] : m \in ErrorMessages}
    \cup {[kind |-> "raise", value |-> PyNone, msg |-> m] : m \in ErrorMessages}

NoCall == [kind |-> "none", value |-> PyNone, msg |-> ""]

\* The port reported failure: "'error' in llm_result" or an exception.
PortFailed(out) ==
    \/ out.kind = "raise"
    \/ out.kind = "return" /\ "error" \in DOMAIN out.value

FailureDescription_m(out) ==
    IF out.kind = "raise" THEN "Internal error" ELSE out.value["error"]

\* llm_result['error'] or str(e)
FailureDescription(out) ==
    IF out.kind = "raise" THEN out.msg ELSE out.value["error"]

----------------------------------------------------------------------------
(* The request: extract_event_data and ExtractionPipeline.process *)

Init ==
    /\ pc = "endpoint"
    /\ image \in Images
    /\ params \in Params
    /\ complexity = PyNone
    /\ route = NoneStr
    /\ engine_lang = OCR_DEFAULT_LANG
    /\ ocr_result = PyNone
    /\ ocr_envelope = PyNone
    /\ route_override = NoneStr
    /\ preserve_ocr = PyNone
    /\ t2j = NoCall
    /\ i2j = NoCall
    /\ result = PyNone
    /\ calls = <<>>
    /\ exc = ""
    /\ http_status = 0
    /\ fn = ""
    /\ arg = PyNone
    /\ ret = <<>>
    /\ lanes = <<>>
    /\ extractors = <<>>

ValidateForceRoute_m ==
    /\ pc = "endpoint"
    /\ pc' = "preprocess"
    /\ UNCHANGED <<lanes, extractors, fn, arg, ret, image, params, complexity, route, engine_lang,
                   ocr_result, ocr_envelope, route_override, preserve_ocr, t2j, i2j,
                   result, calls, exc, http_status>>

\* extract_event_data: "if force_route and force_route not in [...]" -> 400.
ValidateForceRoute ==
    /\ pc = "endpoint"
    /\ IF TruthyStr(params.force_route) /\ params.force_route \notin {"ocr_first", "vision"}
       THEN pc' = "responded" /\ http_status' = 400
       ELSE pc' = "preprocess" /\ UNCHANGED http_status
    /\ UNCHANGED <<lanes, extractors, fn, arg, ret, image, params, complexity, route, engine_lang, ocr_result,
                   ocr_envelope, route_override, preserve_ocr, t2j, i2j, result,
                   calls, exc>>

\* ImageProcessor.process: cv2.imdecode gives None for bytes that are no
\* image, and process raises ValueError("Failed to decode image").
decode_fails_m(img) == FALSE
decode_fails(img) == ~img.decodable

\* process, stage 1: any failure of the preprocessor is re-raised as ValueError.
Preprocess ==
    /\ pc = "preprocess"
    /\ calls' = Append(calls, "preprocess")
    /\ IF ~decode_fails(image)
       THEN pc' = "scoring" /\ UNCHANGED exc
       ELSE pc' = "raised" /\ exc' = "ValueError"
    /\ UNCHANGED <<lanes, extractors, fn, arg, ret, image, params, complexity, route, engine_lang, ocr_result,
                   ocr_envelope, route_override, preserve_ocr, t2j, i2j, result,
                   http_status>>

\* process, stage 2.
CalculateComplexity ==
    /\ pc = "scoring"
    /\ calls' = Append(calls, "calculate")
    /\ complexity' = calculate(image)
    /\ pc' = "routing"
    /\ UNCHANGED <<lanes, extractors, fn, arg, ret, image, params, route, engine_lang, ocr_result, ocr_envelope,
                   route_override, preserve_ocr, t2j, i2j, result, exc, http_status>>

\* process, stages 3 and 4: the forced route or the decided one, then the
\* call of _ocr_first_route or of _vision_route (with no override, no OCR data).
DecideRoute ==
    /\ pc = "routing"
    /\ IF TruthyStr(params.force_route)
       THEN route' = params.force_route /\ UNCHANGED calls
       ELSE route' = decide(complexity) /\ calls' = Append(calls, "decide")
    /\ IF route' = "ocr_first"
       THEN pc' = "ocr" /\ UNCHANGED <<route_override, preserve_ocr>>
       ELSE pc' = "image_to_json" /\ route_override' = NoneStr /\ preserve_ocr' = PyNone
    /\ UNCHANGED <<lanes, extractors, fn, arg, ret, image, params, complexity, engine_lang, ocr_result, ocr_envelope,
                   t2j, i2j, result, exc, http_status>>

\* _ocr_first_route: self.ocr_extractor.extract(processed_img, lang=...).  The
\* call is outside any try, so an exception of extract leaves process.
OcrExtract ==
    /\ pc = "ocr"
    /\ calls' = Append(calls, "ocr_extract")
    /\ IF Reinitializes(params.lang) /\ params.lang \notin SupportedLangs
       THEN /\ pc' = "raised"
            /\ exc' = "Exception"
            /\ UNCHANGED <<engine_lang, ocr_result>>
       ELSE /\ engine_lang' = IF Reinitializes(params.lang) THEN params.lang
                              ELSE engine_lang
            /\ \E outcome \in EngineOutcomes :
                   ocr_result' = extract_result(outcome, image.height)
            /\ pc' = "text_to_json"
            /\ UNCHANGED exc
    /\ UNCHANGED <<lanes, extractors, fn, arg, ret, image, params, complexity, route, ocr_envelope, route_override,
                   preserve_ocr, t2j, i2j, result, http_status>>

\* _ocr_first_route: the text_to_json call; a structured error or an exception
\* calls _vision_route(route_override="ocr_fallback_vision"), else the result
\* dict is built.
TextToJson ==
    /\ pc = "text_to_json"
    /\ calls' = Append(calls, "text_to_json")
    /\ \E out \in PortOutcomes :
        /\ t2j' = out
        /\ IF PortFailed(out)
           THEN /\ route_override' = "ocr_fallback_vision"
                /\ preserve_ocr' = PyNone
                /\ pc' = "image_to_json"
                /\ UNCHANGED <<ocr_envelope, result>>
           ELSE /\ ocr_envelope' = ocr_first_envelope(complexity, ocr_result, out.value)
                /\ result' = ocr_first_envelope(complexity, ocr_result, out.value)
                /\ pc' = "sufficiency"
                /\ UNCHANGED <<route_override, preserve_ocr>>
    /\ UNCHANGED <<lanes, extractors, fn, arg, ret, image, params, complexity, route, engine_lang, ocr_result, i2j,
                   exc, http_status>>

\* _ocr_first_route: "if not self.validator.is_extraction_sufficient(result)".
SufficiencyCheck ==
    /\ pc = "sufficiency"
    /\ calls' = Append(calls, "is_extraction_sufficient")
    /\ IF ~is_extraction_sufficient(result)
       THEN /\ route_override' = "ocr_fallback_vision"
            /\ preserve_ocr' = preserve_after_rejection(result)
            /\ pc' = "image_to_json"
       ELSE /\ pc' = "normalize"
            /\ UNCHANGED <<route_override, preserve_ocr>>
    /\ UNCHANGED <<lanes, extractors, fn, arg, ret, image, params, complexity, route, engine_lang, ocr_result,
                   ocr_envelope, t2j, i2j, result, exc, http_status>>

ImageToJson_m ==
    /\ pc = "image_to_json"
    /\ calls' = Append(calls, "image_to_json")
    /\ \E out \in PortOutcomes :
        /\ i2j' = out
        /\ result' = IF PortFailed(out)
                     THEN vision_error_envelope(complexity, route_override, preserve_ocr,
                                                FailureDescription(out))
                     ELSE vision_envelope(complexity, route_override, preserve_ocr,
                                          out.value)
        /\ pc' = IF PortFailed(out) THEN "image_to_json" ELSE "normalize"
    /\ UNCHANGED <<lanes, extractors, fn, arg, ret, image, params, complexity, route, engine_lang, ocr_result,
                   ocr_envelope, route_override, preserve_ocr, t2j, exc, http_status>>

ImageToJson_merge_m ==
    /\ pc = "image_to_json"
    /\ calls' = Append(calls, "image_to_json")
    /\ \E out \in PortOutcomes :
        /\ i2j' = out
        /\ result' =
              IF PortFailed(out)
              THEN vision_error_envelope(complexity, route_override, preserve_ocr,
                                         FailureDescription(out))
              ELSE LET v == vision_envelope(complexity, route_override, preserve_ocr,
                                            out.value)
                       cheap == IF ocr_envelope = PyNone THEN EmptyDict
                                ELSE ocr_envelope.fields
                   IN [v EXCEPT !.fields =
                          [f \in DOMAIN v.fields \cup DOMAIN cheap |->
                              IF f \in DOMAIN v.fields THEN v.fields[f] ELSE cheap[f]]]
    /\ pc' = "normalize"
    /\ UNCHANGED <<lanes, extractors, fn, arg, ret, image, params, complexity, route, engine_lang, ocr_result,
                   ocr_envelope, route_override, preserve_ocr, t2j, exc, http_status>>

\* _vision_route: the image_to_json call and the dict it returns.
ImageToJson ==
    /\ pc = "image_to_json"
    /\ calls' = Append(calls, "image_to_json")
    /\ \E out \in PortOutcomes :
        /\ i2j' = out
        /\ result' = IF PortFailed(out)
                     THEN vision_error_envelope(complexity, route_override, preserve_ocr,
                                                FailureDescription(out))
                     ELSE vision_envelope(complexity, route_override, preserve_ocr,
                                          out.value)
    /\ pc' = "normalize"
    /\ UNCHANGED <<lanes, extractors, fn, arg, ret, image, params, complexity, route, engine_lang, ocr_result,
                   ocr_envelope, route_override, preserve_ocr, t2j, exc, http_status>>

\* process, stage 5: result = self.normalizer.normalize(result), outside any try.
Normalize ==
    /\ pc = "normalize"
    /\ calls' = Append(calls, "normalize")
    /\ IF normalize_exception(result) # ""
       THEN pc' = "raised" /\ exc' = normalize_exception(result) /\ UNCHANGED result
       ELSE pc' = "validate" /\ result' = normalize(result) /\ UNCHANGED exc
    /\ UNCHANGED <<lanes, extractors, fn, arg, ret, image, params, complexity, route, engine_lang, ocr_result,
                   ocr_envelope, route_override, preserve_ocr, t2j, i2j, http_status>>

\* process, stage 6: result = self.validator.validate(result); return result.
Validate ==
    /\ pc = "validate"
    /\ calls' = Append(calls, "validate")
    /\ \E above \in BOOLEAN : result' = validate(result, above)
    /\ pc' = "returned"
    /\ UNCHANGED <<lanes, extractors, fn, arg, ret, image, params, complexity, route, engine_lang, ocr_result,
                   ocr_envelope, route_override, preserve_ocr, t2j, i2j, exc,
                   http_status>>

\* extract_event_data: JSONResponse(content=result), ValueError -> 400, any
\* other exception -> 500.
Respond ==
    /\ pc \in {"returned", "raised"}
    /\ http_status' = IF pc = "returned" THEN 200
                      ELSE IF exc = "ValueError" THEN 400 ELSE 500
    /\ pc' = "responded"
    /\ UNCHANGED <<lanes, extractors, fn, arg, ret, image, params, complexity, route, engine_lang, ocr_result,
                   ocr_envelope, route_override, preserve_ocr, t2j, i2j, result,
                   calls, exc>>

Next ==
    \/ ValidateForceRoute
    \/ Preprocess
    \/ CalculateComplexity
    \/ DecideRoute
    \/ OcrExtract
    \/ TextToJson
    \/ SufficiencyCheck
    \/ ImageToJson
    \/ Normalize
    \/ Validate
    \/ Respond

Spec == Init /\ [][Next]_vars

----------------------------------------------------------------------------
(* The components exercised on their own: one call after another of one      *)
(* operation on an argument drawn from a bounded set, outside any request.   *)

\* The most calls made of the operation.
MaxCalls == 2

\* The request variables while no request is in progress.
NoRequest ==
    /\ pc = "idle"
    /\ image = PyNone
    /\ params = PyNone
    /\ complexity = PyNone
    /\ route = NoneStr
    /\ engine_lang = OCR_DEFAULT_LANG
    /\ ocr_result = PyNone
    /\ ocr_envelope = PyNone
    /\ route_override = NoneStr
    /\ preserve_ocr = PyNone
    /\ t2j = NoCall
    /\ i2j = NoCall
    /\ result = PyNone
    /\ calls = <<>>
    /\ exc = ""
    /\ http_status = 0

\* No requests are served side by side.
NoLanes ==
    /\ lanes = <<>>
    /\ extractors = <<>>

\* What a call did: it returned a value or raised an exception.
Returns(v) == [kind |-> "return", value |-> v, exc |-> ""]
Raises(e) == [kind |-> "raise", value |-> PyNone, exc |-> e]

\* ComplexityScore objects: the five members are independent of one another
\* (the schema only bounds overall_complexity to [0, 1]).
Scores ==
    [blur_variance : {50, 150},
     edge_density : {0, 100},
     text_density : {0, 50, 51, 100},
     overall_complexity : {0, 7000, 7001, 10000},
     is_blurry : BOOLEAN]

InitDecider ==
    /\ NoRequest
    /\ NoLanes
    /\ fn = "decide"
    /\ arg \in Scores
    /\ ret = <<>>

\* route_decider.decide(complexity)
CallDecide ==
    /\ fn = "decide"
    /\ Len(ret) < MaxCalls
    /\ ret' = Append(ret, Returns(decide(arg)))
    /\ UNCHANGED <<lanes, extractors, fn, arg, pc, image, params, complexity, route, engine_lang,
                   ocr_result, ocr_envelope, route_override, preserve_ocr, t2j, i2j,
                   result, calls, exc, http_status>>

NextDecider == CallDecide

SpecDecider == InitDecider /\ [][NextDecider]_vars

\* The fields of the envelopes handed to the validator on its own: the three
\* critical ones and one other.
ValidatorFields == {"event_name", "date", "venue_name", "ticket_price"}

\* The key is not in the dict.
Absent == [absent |-> TRUE]

ConfidenceSamples == {40, 59, 60, 80}

\* What a critical field can hold: a null entry, a null or empty value, or a
\* value with some confidence.
CriticalEntries ==
    {Absent, PyNone, Entry(NoneV, 0, ""), Entry(StrV(<<>>), 40, "")}
    \cup {Entry(SName, c, "line 1") : c \in ConfidenceSamples}

\* What the other field can hold: a number (zero), a text, an empty list, or
\* an entry that carries no confidence.
OtherEntries ==
    {Absent,
     Entry(NumV(0), 40, "line 9"),
     Entry(StrV(<<"f", "r", "e", "e">>), 59, "line 9"),
     Entry(ListV(0), 30, "line 9"),
     [value |-> StrV(<<"f", "r", "e", "e">>), source |-> "line 9"]}

EntriesOf(f) == IF f = "ticket_price" THEN OtherEntries ELSE CriticalEntries

\* The dict whose keys are the fields the choice does not leave absent.
FieldMapOf(choice) ==
    [f \in {g \in DOMAIN choice : choice[g] # Absent} |-> choice[f]]

FieldMaps ==
    {FieldMapOf(choice) :
        choice \in {ch \in [ValidatorFields -> CriticalEntries \cup OtherEntries] :
                       \A f \in ValidatorFields : ch[f] \in EntriesOf(f)}}

\* Envelopes before validation (no 'confidence' yet), one without 'fields'.
UnvalidatedEnvelopes ==
    {[fields |-> fm] : fm \in FieldMaps} \cup {[extra |-> <<>>]}

\* Envelopes that carry an overall confidence.
ScoredEnvelopes ==
    {[fields |-> fm, confidence |-> c] : fm \in FieldMaps, c \in {0, 40, 49, 50, 90}}

InitValidator ==
    /\ NoRequest
    /\ NoLanes
    /\ \/ fn = "validate" /\ arg \in UnvalidatedEnvelopes
       \/ fn = "is_extraction_sufficient" /\ arg \in UnvalidatedEnvelopes \cup ScoredEnvelopes
    /\ ret = <<>>

\* validator.validate(extraction_result): the dict is updated in place and
\* returned.
CallValidate ==
    /\ fn = "validate"
    /\ Len(ret) < MaxCalls
    /\ \E above \in BOOLEAN :
        /\ arg' = validate(arg, above)
        /\ ret' = Append(ret, Returns(validate(arg, above)))
    /\ UNCHANGED <<lanes, extractors, fn, pc, image, params, complexity, route, engine_lang,
                   ocr_result, ocr_envelope, route_override, preserve_ocr, t2j, i2j,
                   result, calls, exc, http_status>>

\* validator.is_extraction_sufficient(extraction_result)
CallIsExtractionSufficient ==
    /\ fn = "is_extraction_sufficient"
    /\ Len(ret) < MaxCalls
    /\ ret' = Append(ret, Returns(is_extraction_sufficient(arg)))
    /\ UNCHANGED <<lanes, extractors, fn, arg, pc, image, params, complexity, route, engine_lang,
                   ocr_result, ocr_envelope, route_override, preserve_ocr, t2j, i2j,
                   result, calls, exc, http_status>>

NextValidator ==
    \/ CallValidate
    \/ CallIsExtractionSufficient

SpecValidator == InitValidator /\ [][NextValidator]_vars

\* The longest text drawn letter by letter, and the longest run of digits.
MaxLen == 4
MaxDigits == 11

Chars(s) == StrV(s)

TimeSamples ==
    {<<"9", "a", "m", "-", "5", "p", "m">>,
     <<"9", "a", "m", " ", "t", "o", " ", "5", "p", "m">>,
     <<"9", " ", "t", "o", " ", "5", "p", "m">>,
     <<"1", "2", ":", "3", "0", " ", "A", "M">>,
     <<"7", ":", "0", "5", "p", "m">>,
     <<"0", "9", ":", "0", "0", "-", "1", "7", ":", "0", "0">>,
     <<"1", "0", "-", "1", "1", ":", "3", "0", "p", "m">>,
     <<"1", "3", "p", "m">>,
     <<"1", "4", ":", "3", "0">>,
     <<"9", "-", "5", "p", "m">>,
     <<"n", "o", "o", "n">>}

SFoo == <<"F", "o", "o", "@", "B", "a", "r", ".", "C", "O", "M", " ">>

UrlSamples ==
    {<<"h", "t", "t", "p", ":", "/", "/", "x", ".", "i", "o">>,
     <<"h", "t", "t", "p", "s", ":", "/", "/", "x", ".", "i", "o">>,
     <<"H", "T", "T", "P", ":", "/", "/", "x", ".", "i", "o">>,
     <<" ", "w", "w", "w", ".", "x", ".", "i", "o", " ">>,
     <<"l", "o", "c", "a", "l", "h", "o", "s", "t">>}

PhoneSamples ==
    {<<"5", "5", "5", "-", "1", "2", "3", "-", "4", "5", "6", "7">>,
     <<"(", "5", "5", "5", ")", " ", "1", "2", "3", "-", "4", "5", "6", "7">>,
     <<"+", "1", " ", "(", "5", "5", "5", ")", " ", "1", "2", "3", "-", "4", "5", "6", "7">>,
     <<"2", "5", "5", "5", "1", "2", "3", "4", "5", "6", "7">>,
     <<"5", "5", "5", "-", "1", "2", "3", "4">>,
     <<"c", "a", "l", "l", " ", "u", "s">>}

\* The texts a field of each kind is given.
TextsOf(kind) ==
    CASE kind = "date" -> {SIsoDate.s, STextDate.s, <<"s", "o", "o", "n">>}
      [] kind = "time" -> SeqsUpTo({"1", ":", "0", "p", "m", "-"}, MaxLen) \cup TimeSamples
      [] kind = "phone" -> PhoneSamples
      [] kind = "email" -> SeqsUpTo({"A", "b", "@", " "}, MaxLen) \cup {SFoo}
      [] kind = "url" -> SeqsUpTo({"w", ".", "x", " "}, MaxLen) \cup UrlSamples
      [] OTHER -> {SName.s, STimeRange.s}

\* The values that are no text: null, numbers, lists and maps.
NonTextValues ==
    {NoneV, NumV(0), NumV(1900), ListV(0), ListV(2), DictV(0), DictV(1)}

NormalizerFields ==
    {"date", "time", "end_time", "contact_phone", "contact_email", "website",
     "description"}

\* Envelopes handed to the normalizer: field maps with one field holding any
\* value of the data model, the field maps of the port responses, a map
\* mixing texts to rewrite with a list, and an envelope without 'fields'.
OneFieldEnvelopes(f) ==
    {[fields |-> (f :> Entry(v, 80, "line 1"))] :
        v \in {Chars(t) : t \in TextsOf(FieldKind(f))} \cup NonTextValues}

\* An envelope as the pipeline hands it over: every key of the data model,
\* fields the normalizer rewrites next to fields it leaves alone.
PipelineEnvelope ==
    [type |-> "event_poster",
     route |-> "ocr_fallback_vision",
     complexity_score |->
         calculate([decodable |-> TRUE, height |-> 90, blur |-> 150, edge |-> 0,
                    text |-> 60]),
     fields |-> [event_name |-> Entry(SName, 95, "line 1"),
                 date |-> Entry(SIsoDate, 90, "line 2"),
                 time |-> Entry(STimeRange, 85, "line 3"),
                 description |-> Entry(STimeRange, 80, "lines 6-8"),
                 contact_email |-> Entry(SEmail, 90, "line 11"),
                 website |-> Entry(SSite, 95, "line 14"),
                 organizer |-> PyNone],
     extra |-> ExtraSample,
     raw |-> [ocr_text |-> "EXPO 2026", layout_blocks |-> <<>>,
              debug |-> [blur |-> 150, edge_density |-> 0, cc_count |-> 0]],
     error |-> "429 quota exceeded"]

NormalizerEnvelopes ==
    UNION {OneFieldEnvelopes(f) : f \in NormalizerFields}
    \cup {PipelineEnvelope}
    \cup {[fields |-> r.fields] : r \in {x \in Responses : "fields" \in DOMAIN x}}
    \cup {[fields |-> [date |-> Entry(STextDate, 90, "line 2"),
                       website |-> Entry(SSite, 70, "line 14"),
                       contact_email |-> Entry(ListV(2), 85, "line 11")]],
          [fields |-> EmptyDict],
          [extra |-> ExtraSample]}

\* Runs of digits handed to _normalize_phone, and punctuated numbers.
PhoneArguments == SeqsUpTo({"1", "5"}, MaxDigits) \cup PhoneSamples

InitNormalizer ==
    /\ NoRequest
    /\ NoLanes
    /\ \/ fn = "normalize" /\ arg \in NormalizerEnvelopes
       \/ fn = "_normalize_phone" /\ arg \in PhoneArguments
       \/ fn = "_normalize_email" /\ arg \in TextsOf("email")
       \/ fn = "_normalize_time" /\ arg \in TextsOf("time")
       \/ fn = "_normalize_url" /\ arg \in TextsOf("url")
    /\ ret = <<>>

\* normalizer.normalize(extraction_result): the dict is rewritten in place and
\* returned, or an exception of a rewriter leaves the call.
CallNormalize ==
    /\ fn = "normalize"
    /\ Len(ret) < MaxCalls
    /\ IF normalize_exception(arg) # ""
       THEN /\ arg' = normalize_interrupted(arg)
            /\ ret' = Append(ret, Raises(normalize_exception(arg)))
       ELSE /\ arg' = normalize(arg)
            /\ ret' = Append(ret, Returns(normalize(arg)))
    /\ UNCHANGED <<lanes, extractors, fn, pc, image, params, complexity, route, engine_lang,
                   ocr_result, ocr_envelope, route_override, preserve_ocr, t2j, i2j,
                   result, calls, exc, http_status>>

\* The text the next call is applied to: the argument, then what the previous
\* call returned.
Operand == IF ret = <<>> THEN arg ELSE ret[Len(ret)].value

\* normalizer._normalize_phone(phone)
CallNormalizePhone ==
    /\ fn = "_normalize_phone"
    /\ Len(ret) < MaxCalls
    /\ ret' = Append(ret, Returns(normalize_phone(Operand)))
    /\ UNCHANGED <<lanes, extractors, fn, arg, pc, image, params, complexity, route, engine_lang,
                   ocr_result, ocr_envelope, route_override, preserve_ocr, t2j, i2j,
                   result, calls, exc, http_status>>

\* normalizer._normalize_email(email)
CallNormalizeEmail ==
    /\ fn = "_normalize_email"
    /\ Len(ret) < MaxCalls
    /\ ret' = Append(ret, Returns(normalize_email(Operand)))
    /\ UNCHANGED <<lanes, extractors, fn, arg, pc, image, params, complexity, route, engine_lang,
                   ocr_result, ocr_envelope, route_override, preserve_ocr, t2j, i2j,
                   result, calls, exc, http_status>>

\* normalizer._normalize_time(time_str)
CallNormalizeTime ==
    /\ fn = "_normalize_time"
    /\ Len(ret) < MaxCalls
    /\ ret' = Append(ret, Returns(normalize_time(Operand)))
    /\ UNCHANGED <<lanes, extractors, fn, arg, pc, image, params, complexity, route, engine_lang,
                   ocr_result, ocr_envelope, route_override, preserve_ocr, t2j, i2j,
                   result, calls, exc, http_status>>

\* normalizer._normalize_url(url)
CallNormalizeUrl ==
    /\ fn = "_normalize_url"
    /\ Len(ret) < MaxCalls
    /\ ret' = Append(ret, Returns(normalize_url(Operand)))
    /\ UNCHANGED <<lanes, extractors, fn, arg, pc, image, params, complexity, route, engine_lang,
                   ocr_result, ocr_envelope, route_override, preserve_ocr, t2j, i2j,
                   result, calls, exc, http_status>>

NextNormalizer ==
    \/ CallNormalize
    \/ CallNormalizePhone
    \/ CallNormalizeEmail
    \/ CallNormalizeTime
    \/ CallNormalizeUrl

SpecNormalizer == InitNormalizer /\ [][NextNormalizer]_vars

\* The lang argument of extract: a language, "" or None (the default).
ExtractLangs == Langs \cup {NoneStr, ""}

\* One OCRExtractor, just constructed (its engine is built for the default
\* language), and the languages of the calls that will be made of extract.
InitExtractor ==
    /\ NoRequest
    /\ NoLanes
    /\ fn = "extract"
    /\ arg \in SeqsUpTo(ExtractLangs, MaxCalls) \ {<<>>}
    /\ ret = <<>>

\* ocr_extractor.extract(img, lang): rebuild the engine when a language other
\* than the default is given, run it, build the result.
CallExtract ==
    /\ fn = "extract"
    /\ Len(ret) < Len(arg)
    /\ LET lang == arg[Len(ret) + 1]
       IN IF Reinitializes(lang) /\ lang \notin SupportedLangs
          THEN /\ ret' = Append(ret, Raises("Exception"))
               /\ UNCHANGED engine_lang
          ELSE /\ engine_lang' = IF Reinitializes(lang) THEN lang ELSE engine_lang
               /\ \E img \in {i \in Images : i.decodable}, outcome \in EngineOutcomes :
                      ret' = Append(ret, Returns(extract_result(outcome, img.height)))
    /\ UNCHANGED <<lanes, extractors, fn, arg, pc, image, params, complexity, route, ocr_result,
                   ocr_envelope, route_override, preserve_ocr, t2j, i2j, result, calls,
                   exc, http_status>>

NextExtractor == CallExtract

SpecExtractor == InitExtractor /\ [][NextExtractor]_vars

----------------------------------------------------------------------------
(* Requests served side by side.  extract_event_data builds an LLM adapter,  *)
(* an OCRExtractor and an ExtractionPipeline for each request; the module    *)
(* level settings object is the only thing the requests share, and nothing   *)
(* writes to it.  A lane holds the locals of one request together with what  *)
(* its own adapter and engine will answer.                                   *)

Requests == {1, 2}

ExtractorOf_m(r) == 1

\* The OCRExtractor request r uses: "ocr_extractor = OCRExtractor(settings)"
\* gives every request one of its own.
ExtractorOf(r) == r

\* What self.ocr.ocr(img) gives on the page, by the language of the engine.
EngineReading ==
    [en |-> [kind |-> "return", msg |-> "",
             lines |-> <<CHOOSE l \in LineSamples : l.text = "EXPO 2026">>],
     fr |-> [kind |-> "return", msg |-> "",
             lines |-> <<CHOOSE l \in LineSamples : l.text = "Hall 4">>]]

\* The answers of the adapter of one request.
AdapterAnswers ==
    {x \in PortOutcomes :
        \/ x.kind = "raise" /\ x.msg = "429 quota exceeded"
        \/ /\ x.kind = "return"
           /\ "fields" \in DOMAIN x.value
           /\ "time" \in DOMAIN x.value["fields"]}

LaneImages == {i \in Images : i.edge = 0 /\ (i.decodable => i.text = 60)}

LaneParams ==
    {p \in Params : \/ p.force_route = NoneStr
                    \/ p.force_route = "bogus" /\ p.lang = OCR_DEFAULT_LANG}

\* The locals of a request as extract_event_data starts on it.
LaneStart(img, prm, text_answer, image_answer) ==
    [pc |-> "endpoint", image |-> img, params |-> prm,
     ports |-> [engine |-> EngineReading, t2j |-> text_answer, i2j |-> image_answer],
     complexity |-> PyNone, route |-> NoneStr, ocr_result |-> PyNone,
     ocr_envelope |-> PyNone, route_override |-> NoneStr, preserve_ocr |-> PyNone,
     t2j |-> NoCall, i2j |-> NoCall, result |-> PyNone, exc |-> "",
     http_status |-> 0]

LaneStarts ==
    {LaneStart(img, prm, a, b) :
        img \in LaneImages, prm \in LaneParams, a \in AdapterAnswers, b \in AdapterAnswers}

\* One stage of extract_event_data / process on the locals q of a request,
\* with the engine language of the extractor it uses: the stages of the
\* pipeline above, the ports answering as q.ports says.
\* round() in validate is a function of the confidences, the same whether the
\* request is served alone or beside another.
StepLane(q, engine) ==
    LET Same(n) == [lane |-> n, engine |-> engine]
    IN CASE q.pc = "endpoint" ->
              Same(IF /\ TruthyStr(q.params.force_route)
                      /\ q.params.force_route \notin {"ocr_first", "vision"}
                   THEN [q EXCEPT !.pc = "responded", !.http_status = 400]
                   ELSE [q EXCEPT !.pc = "preprocess"])
         [] q.pc = "preprocess" ->
              Same(IF ~decode_fails(q.image)
                   THEN [q EXCEPT !.pc = "scoring"]
                   ELSE [q EXCEPT !.pc = "raised", !.exc = "ValueError"])
         [] q.pc = "scoring" ->
              Same([q EXCEPT !.pc = "routing", !.complexity = calculate(q.image)])
         [] q.pc = "routing" ->
              LET r == IF TruthyStr(q.params.force_route) THEN q.params.force_route
                       ELSE decide(q.complexity)
              IN Same(IF r = "ocr_first"
                      THEN [q EXCEPT !.route = r, !.pc = "ocr"]
                      ELSE [q EXCEPT !.route = r, !.pc = "image_to_json",
                                     !.route_override = NoneStr,
                                     !.preserve_ocr = PyNone])
         [] q.pc = "ocr" ->
              IF Reinitializes(q.params.lang) /\ q.params.lang \notin SupportedLangs
              THEN Same([q EXCEPT !.pc = "raised", !.exc = "Exception"])
              ELSE LET e == IF Reinitializes(q.params.lang) THEN q.params.lang
                            ELSE engine
                   IN [lane |-> [q EXCEPT !.pc = "text_to_json",
                                          !.ocr_result =
                                              extract_result(q.ports.engine[e],
                                                             q.image.height)],
                       engine |-> e]
         [] q.pc = "text_to_json" ->
              Same(IF PortFailed(q.ports.t2j)
                   THEN [q EXCEPT !.t2j = q.ports.t2j,
                                  !.route_override = "ocr_fallback_vision",
                                  !.preserve_ocr = PyNone,
                                  !.pc = "image_to_json"]
                   ELSE LET env == ocr_first_envelope(q.complexity, q.ocr_result,
                                                      q.ports.t2j.value)
                        IN [q EXCEPT !.t2j = q.ports.t2j, !.ocr_envelope = env,
                                     !.result = env, !.pc = "sufficiency"])
         [] q.pc = "sufficiency" ->
              Same(IF ~is_extraction_sufficient(q.result)
                   THEN [q EXCEPT !.route_override = "ocr_fallback_vision",
                                  !.preserve_ocr = preserve_after_rejection(q.result),
                                  !.pc = "image_to_json"]
                   ELSE [q EXCEPT !.pc = "normalize"])
         [] q.pc = "image_to_json" ->
              Same([q EXCEPT
                      !.i2j = q.ports.i2j,
                      !.result =
                          IF PortFailed(q.ports.i2j)
                          THEN vision_error_envelope(q.complexity, q.route_override,
                                                     q.preserve_ocr,
                                                     FailureDescription(q.ports.i2j))
                          ELSE vision_envelope(q.complexity, q.route_override,
                                               q.preserve_ocr, q.ports.i2j.value),
                      !.pc = "normalize"])
         [] q.pc = "normalize" ->
              Same(IF normalize_exception(q.result) # ""
                   THEN [q EXCEPT !.pc = "raised", !.exc = normalize_exception(q.result)]
                   ELSE [q EXCEPT !.pc = "validate", !.result = normalize(q.result)])
         [] q.pc = "validate" ->
              Same([q EXCEPT !.pc = "returned", !.result = validate(q.result, TRUE)])
         [] q.pc \in {"returned", "raised"} ->
              Same([q EXCEPT !.pc = "responded",
                             !.http_status = IF q.pc = "returned" THEN 200
                                             ELSE IF q.exc = "ValueError" THEN 400
                                             ELSE 500])

InitConcurrent ==
    /\ NoRequest
    /\ fn = ""
    /\ arg = PyNone
    /\ ret = <<>>
    /\ lanes \in [Requests -> LaneStarts]
    /\ extractors = [r \in Requests |-> OCR_DEFAULT_LANG]

\* The handler of request r runs its next stage.
extract_event_data(r) ==
    /\ lanes[r].pc # "responded"
    /\ LET n == StepLane(lanes[r], extractors[ExtractorOf(r)])
       IN /\ lanes' = [lanes EXCEPT ![r] = n.lane]
          /\ extractors' = [extractors EXCEPT ![ExtractorOf(r)] = n.engine]
    /\ UNCHANGED <<fn, arg, ret, pc, image, params, complexity, route, engine_lang,
                   ocr_result, ocr_envelope, route_override, preserve_ocr, t2j, i2j,
                   result, calls, exc, http_status>>

NextConcurrent == \E r \in Requests : extract_event_data(r)

SpecConcurrent == InitConcurrent /\ [][NextConcurrent]_vars

\* The request served with nothing beside it: its stages one after the
\* other on an extractor of its own.
RECURSIVE RunLane(_, _)
RunLane(q, engine) ==
    IF q.pc = "responded" THEN q
    ELSE LET n == StepLane(q, engine) IN RunLane(n.lane, n.engine)

RunAlone(q) ==
    RunLane(LaneStart(q.image, q.params, q.ports.t2j, q.ports.i2j), OCR_DEFAULT_LANG)

----------------------------------------------------------------------------
(* Vocabulary of the properties *)

\* process has returned an envelope (and the endpoint may have sent it).
Returned == pc = "returned" \/ (pc = "responded" /\ http_status = 200)

Called(name) == \E i \in 1..Len(calls) : calls[i] = name
CountCalls(name) == Cardinality({i \in 1..Len(calls) : calls[i] = name})

PortCalls == {"ocr_extract", "text_to_json", "image_to_json"}

\* The raw payload the cheap route builds from its OCR result.
CheapRaw ==
    [ocr_text |-> ocr_result.text,
     layout_blocks |-> ocr_result.blocks,
     debug |-> [blur |-> complexity.blur_variance,
                edge_density |-> complexity.edge_density,
                cc_count |-> Len(ocr_result.blocks)]]

\* text_to_json succeeded and the sufficiency check then rejected the result.
Rejected ==
    /\ ocr_envelope # PyNone
    /\ Called("is_extraction_sufficient")
    /\ route_override = "ocr_fallback_vision"

EnvelopeKeys ==
    {"type", "route", "complexity_score", "confidence", "fields", "extra", "raw",
     "warnings"}


\* The critical fields, as a set.
CriticalSet == {"event_name", "date", "venue_name"}

\* The field is in the map with an entry whose value is not null and not
\* empty (not "", 0, [] or {}: what the code's "if value" accepts).
HasValue(fields, f) ==
    /\ f \in DOMAIN fields
    /\ fields[f] # PyNone
    /\ "value" \in DOMAIN fields[f]
    /\ fields[f]["value"] \notin {NoneV, StrV(<<>>), NumV(0), ListV(0), DictV(0)}

\* The fields present with an entry that carries a confidence.
PresentFields(fields) ==
    {f \in DOMAIN fields : fields[f] # PyNone /\ "confidence" \in DOMAIN fields[f]}

\* The set of the members of a sequence.
Range(q) == {q[i] : i \in 1..Len(q)}


\* A time of day written HH:MM, and a range of two joined by '-'.
IsClock(t) ==
    /\ Len(t) = 5
    /\ IsDigit(t[1]) /\ IsDigit(t[2]) /\ t[3] = ":" /\ IsDigit(t[4]) /\ IsDigit(t[5])

IsClockRange(t) ==
    /\ Len(t) = 11
    /\ IsClock(SubSeq(t, 1, 5))
    /\ t[6] = "-"
    /\ IsClock(SubSeq(t, 7, 11))

\* The HH:MM of an endpoint: an hour of one or two digits, then ":MM", an
\* am/pm, or both; <<>> when the text is no such endpoint.
ClockOf(e) ==
    LET Shape(d, m) ==
            /\ Len(e) >= d + (IF m THEN 3 ELSE 0)
            /\ \A k \in 1..d : IsDigit(e[k])
            /\ m => (e[d + 1] = ":" /\ IsDigit(e[d + 2]) /\ IsDigit(e[d + 3]))
            /\ LET rest == lower(strip(SubSeq(e, d + (IF m THEN 3 ELSE 0) + 1, Len(e))))
               IN \/ rest \in {<<"a", "m">>, <<"p", "m">>}
                  \/ m /\ rest = <<>>
    IN IF \E d \in {1, 2}, m \in BOOLEAN : Shape(d, m)
       THEN LET dm == CHOOSE x \in {1, 2} \X BOOLEAN : Shape(x[1], x[2])
                d == dm[1]
                m == dm[2]
                h == IF d = 2 THEN 10 * DigitVal(e[1]) + DigitVal(e[2]) ELSE DigitVal(e[1])
                pm == <<"p", "m">> = lower(SubSeq(e, Len(e) - 1, Len(e)))
                am == <<"a", "m">> = lower(SubSeq(e, Len(e) - 1, Len(e)))
                hour == IF pm /\ h < 12 THEN h + 12 ELSE IF am /\ h = 12 THEN 0 ELSE h
            IN <<DigitChars[(hour \div 10) + 1], DigitChars[(hour % 10) + 1], ":">>
               \o (IF m THEN <<e[d + 2], e[d + 3]>> ELSE <<"0", "0">>)
       ELSE <<>>

\* The text is a range: a '-' or the word "to" with an hour on either side.
\* RangeSplits gives the ways to read it as <<left, right>>.
RangeSplits(s) ==
    {<<strip(SubSeq(s, 1, i - 1)), strip(SubSeq(s, i + 1, Len(s)))>> :
        i \in {k \in 1..Len(s) : s[k] = "-"}}
    \cup
    {<<strip(SubSeq(s, 1, i - 1)), strip(SubSeq(s, i + 2, Len(s)))>> :
        i \in {k \in 2..(Len(s) - 2) :
                  /\ lower(SubSeq(s, k, k + 1)) = <<"t", "o">>
                  /\ IsSpace(s[k - 1])
                  /\ IsSpace(s[k + 2])}}

IsRangeText(s) ==
    \E p \in RangeSplits(s) :
        /\ \E k \in 1..Len(p[1]) : IsDigit(p[1][k])
        /\ \E k \in 1..Len(p[2]) : IsDigit(p[2][k])

----------------------------------------------------------------------------
(* Properties *)

\* C1: when the cheap route is taken and text_to_json succeeds with a mean
\* field confidence >= 0.5 and at most one critical field missing, no fallback
\* occurs: image_to_json is never invoked and the final route is "ocr_first".
C1_SufficientCheapResultIsFinal ==
    (/\ ocr_envelope # PyNone
     /\ \A above \in BOOLEAN :
            calculate_overall_confidence(ocr_envelope.fields, above) >= MIN_CONFIDENCE
     /\ Len(check_critical_fields(ocr_envelope.fields)) <= 1)
    => /\ ~Called("image_to_json")
       /\ pc # "image_to_json"
       /\ Returned => result.route = "ocr_first"

\* C2: whenever text_to_json raises or returns a structured error, the final
\* envelope has route "ocr_fallback_vision" and its raw payload still holds the
\* OCR text and layout blocks of the cheap route, whether the vision call
\* succeeds or fails.
C2_FailedCheapRouteKeepsDiagnostics ==
    (Returned /\ PortFailed(t2j))
    => /\ result.route = "ocr_fallback_vision"
       /\ result.raw # PyNone
       /\ "ocr_text" \in DOMAIN result.raw
       /\ "layout_blocks" \in DOMAIN result.raw
       /\ result.raw.ocr_text = ocr_result.text
       /\ result.raw.layout_blocks = ocr_result.blocks

\* C3: when the sufficiency check rejects a successful cheap-route extraction,
\* the pipeline goes on to the vision call with route "ocr_fallback_vision",
\* and from that call on the raw payload of the envelope is exactly the one the
\* cheap route built, whether the vision call succeeds or fails.
C3_RejectedCheapRouteKeepsRaw ==
    Rejected
    => /\ pc = "image_to_json" \/ Called("image_to_json")
       /\ preserve_ocr = CheapRaw
       /\ Called("image_to_json")
          => /\ result.route = "ocr_fallback_vision"
             /\ result.raw = CheapRaw
             /\ result.raw = ocr_envelope.raw

C3_Witness ==
    /\ Returned
    /\ Rejected
    /\ ~PortFailed(i2j)
    /\ result.raw = CheapRaw
    /\ Len(result.raw.layout_blocks) = 2

\* C4: with no route override and a blurry image, whatever the text density,
\* the pipeline goes directly to the vision route: the OCR extractor,
\* text_to_json and the sufficiency check are never invoked and the route of
\* the envelope is "vision".
C4_BlurryGoesStraightToVision ==
    (/\ ~TruthyStr(params.force_route)
     /\ complexity # PyNone
     /\ complexity.is_blurry)
    => /\ ~Called("ocr_extract")
       /\ ~Called("text_to_json")
       /\ ~Called("is_extraction_sufficient")
       /\ pc \notin {"ocr", "text_to_json", "sufficiency"}
       /\ route \in {NoneStr, "vision"}
       /\ result # PyNone => result.route = "vision"

C4_Witness ==
    /\ Returned
    /\ params.force_route = NoneStr
    /\ complexity.is_blurry
    /\ complexity.text_density > 50
    /\ result.route = "vision"

\* C5: if image_to_json raises or returns a structured error, on the direct
\* route or on a fallback, no extraction port is called afterwards and the
\* envelope has fields = {}, extra = [], error = the failure description, and
\* raw = the OCR payload handed to the vision route (the cheap route's raw
\* payload after a rejected extraction, None when none was handed over).
C5_VisionFailureIsFinal ==
    PortFailed(i2j)
    => /\ \A i, j \in 1..Len(calls) :
              (i < j /\ calls[i] = "image_to_json") => calls[j] \notin PortCalls
       /\ pc \notin {"ocr", "text_to_json", "image_to_json"}
       /\ result.fields = EmptyDict
       /\ result.extra = <<>>
       /\ "error" \in DOMAIN result
       /\ result.error = FailureDescription(i2j)
       /\ result.raw = preserve_ocr
       /\ result.raw = IF Rejected THEN CheapRaw ELSE PyNone

C5_Witness ==
    /\ Returned
    /\ PortFailed(i2j)
    /\ i2j.kind = "raise"
    /\ Rejected
    /\ result.raw = CheapRaw

\* C6: every envelope process returns, an error-carrying one included, went
\* through normalize and then validate, and holds the keys type, route,
\* complexity_score, confidence, fields, extra, raw and warnings.
C6_ReturnedEnvelopeIsWellShaped ==
    Returned
    => /\ Len(calls) >= 2
       /\ calls[Len(calls) - 1] = "normalize"
       /\ calls[Len(calls)] = "validate"
       /\ EnvelopeKeys \subseteq DOMAIN result
       /\ \E above \in BOOLEAN : result = validate(result, above)

C6_Witness ==
    /\ Returned
    /\ "error" \in DOMAIN result
    /\ EnvelopeKeys \subseteq DOMAIN result

\* C7: for every image that decodes and every behaviour of the ports, process
\* returns an envelope and does not raise.
C7_OnlyDecodeFailureRaises ==
    image.decodable => (pc # "raised" /\ exc = "")

\* C8: if the image bytes cannot be decoded, process fails with ValueError
\* (HTTP 400 at the endpoint) before scoring, routing or any port call, and no
\* envelope is produced.
C8_DecodeFailureIsTyped ==
    ~image.decodable
    => /\ \A i \in 1..Len(calls) : calls[i] = "preprocess"
       /\ complexity = PyNone
       /\ route = NoneStr
       /\ result = PyNone
       /\ pc \in {"endpoint", "preprocess", "raised", "responded"}
       /\ pc = "raised" => exc = "ValueError"
       /\ pc = "responded" => http_status = 400
       /\ (pc = "responded" /\ calls # <<>>) => exc = "ValueError"

C8_Witness ==
    /\ ~image.decodable
    /\ pc = "responded"
    /\ calls = <<"preprocess">>
    /\ exc = "ValueError"
    /\ http_status = 400

\* C9: within one request text_to_json is invoked at most once and
\* image_to_json at most once, and text_to_json is never invoked after
\* image_to_json.
C9_OneAttemptPerRoute ==
    /\ CountCalls("text_to_json") <= 1
    /\ CountCalls("image_to_json") <= 1
    /\ \A i, j \in 1..Len(calls) :
           (i < j /\ calls[i] = "image_to_json") => calls[j] # "text_to_json"

C9_Witness ==
    /\ Returned
    /\ CountCalls("text_to_json") = 1
    /\ CountCalls("image_to_json") = 1

\* C10: the route of the returned envelope is one of "ocr_first", "vision",
\* "ocr_fallback_vision"; normalize and validate leave it as it was written
\* when the envelope was built; and it is "ocr_fallback_vision" exactly when
\* the cheap route was attempted and the vision port was then called.
C10_RouteInv ==
    Returned
    => /\ result.route \in {"ocr_first", "vision", "ocr_fallback_vision"}
       /\ result.route = "ocr_fallback_vision"
          <=> (Called("ocr_extract") /\ Called("image_to_json"))

C10_RouteIsFinal ==
    /\ []C10_RouteInv
    /\ [][(pc \in {"normalize", "validate", "returned"})
             => (result["route"]' = result["route"])]_vars

C10_Witness ==
    /\ Returned
    /\ result.route = "ocr_fallback_vision"
    /\ "time" \in DOMAIN result.fields
    /\ "normalized" \in DOMAIN result.fields["time"]

\* C11: decide returns "vision" for every score whose is_blurry is true,
\* whatever its overall_complexity, text_density and edge_density.
C11_BlurryIsVision ==
    (fn = "decide" /\ arg.is_blurry)
    => \A i \in 1..Len(ret) : ret[i] = Returns("vision")

C11_Witness ==
    /\ fn = "decide"
    /\ arg.is_blurry
    /\ arg.text_density > 50
    /\ arg.overall_complexity <= COMPLEXITY_THRESHOLD
    /\ Len(ret) >= 1
    /\ ret[1].value = "vision"

\* C12: decide returns "vision" for every score whose overall_complexity is
\* strictly above the threshold, also when text_density > 0.5 and the image is
\* not blurry.
C12_ComplexIsVision ==
    (fn = "decide" /\ arg.overall_complexity > COMPLEXITY_THRESHOLD)
    => \A i \in 1..Len(ret) : ret[i] = Returns("vision")

C12_Witness ==
    /\ fn = "decide"
    /\ arg.overall_complexity = COMPLEXITY_THRESHOLD + 1
    /\ arg.text_density > 50
    /\ ~arg.is_blurry
    /\ Len(ret) >= 1
    /\ ret[1].value = "vision"

\* C13: decide returns on every score, with "ocr_first" or "vision"; it is
\* "ocr_first" exactly when is_blurry is false, overall_complexity is at most
\* the threshold and text_density > 0.5, and "vision" otherwise; two calls on
\* the same score return the same route.
C13_DecideIsTheFourRulePolicy ==
    fn = "decide"
    => /\ \A i \in 1..Len(ret) :
              /\ ret[i].kind = "return"
              /\ ret[i].value \in {"ocr_first", "vision"}
              /\ ret[i].value = "ocr_first"
                 <=> (/\ ~arg.is_blurry
                      /\ ~(arg.overall_complexity > COMPLEXITY_THRESHOLD)
                      /\ arg.text_density > 50)
       /\ \A i, j \in 1..Len(ret) : ret[i] = ret[j]

C13_Witness ==
    /\ fn = "decide"
    /\ Len(ret) = 2
    /\ ret[1].value = "ocr_first"
    /\ ret[2].value = "ocr_first"
    /\ arg.overall_complexity = COMPLEXITY_THRESHOLD
    /\ arg.text_density = 51

\* C14: a force_route other than "ocr_first" and "vision" is answered with
\* HTTP 400 and the pipeline is never run with it; a valid force_route is used
\* as the route without any call of decide, so the first extraction port called
\* is the forced route's, whatever the complexity score.
C14_ForceRouteIsValidatedThenObeyed ==
    /\ (TruthyStr(params.force_route) /\ params.force_route \notin {"ocr_first", "vision"})
       => /\ calls = <<>>
          /\ pc \in {"endpoint", "responded"}
          /\ pc = "responded" => http_status = 400
          /\ complexity = PyNone
          /\ route = NoneStr
          /\ result = PyNone
    /\ params.force_route \in {"ocr_first", "vision"}
       => /\ ~Called("decide")
          /\ route \in {NoneStr, params.force_route}
          /\ pc \notin {"endpoint", "preprocess", "scoring", "routing", "raised", "responded"}
             => route = params.force_route
          /\ \A i \in 1..Len(calls) :
                 (calls[i] \in PortCalls /\ \A k \in 1..(i - 1) : calls[k] \notin PortCalls)
                 => calls[i] = IF params.force_route = "ocr_first"
                               THEN "ocr_extract" ELSE "image_to_json"

C14_Witness ==
    /\ Returned
    /\ params.force_route = "ocr_first"
    /\ decide(complexity) = "vision"
    /\ calls[4] = "text_to_json"
    /\ ~Called("decide")

\* C15: is_extraction_sufficient, on an envelope that carries an overall
\* confidence, returns false if and only if two or more of event_name, date
\* and venue_name are missing or empty, or that confidence is below 0.5; so
\* two missing critical fields are insufficient at any confidence and a
\* confidence of 0.4 with none missing is insufficient.
C15_SufficiencyRule ==
    (fn = "is_extraction_sufficient" /\ "confidence" \in DOMAIN arg)
    => \A i \in 1..Len(ret) :
           /\ ret[i].kind = "return"
           /\ ret[i].value \in BOOLEAN
           /\ ret[i].value = FALSE
              <=> \/ Cardinality({f \in CriticalSet : ~HasValue(arg.fields, f)}) >= 2
                  \/ arg.confidence < 50

C15_Witness ==
    /\ fn = "is_extraction_sufficient"
    /\ "confidence" \in DOMAIN arg
    /\ arg.confidence = 90
    /\ Cardinality({f \in CriticalSet : ~HasValue(arg.fields, f)}) = 2
    /\ Len(ret) >= 1
    /\ ret[1].value = FALSE

\* C16: validate sets the envelope's confidence to the mean of the
\* confidences of all present fields rounded to the nearest hundredth, and to
\* 0.0 when no field is present; fields with confidences 0.8 and 0.4 give 0.6.
C16_ConfidenceIsRoundedMean ==
    fn = "validate"
    => \A i \in 1..Len(ret) :
           LET fields == KeyGet(arg, "fields", EmptyDict)
               present == PresentFields(fields)
               total == SumConfidence(fields, present)
               n == Cardinality(present)
               c == ret[i].value["confidence"]
           IN /\ ret[i].kind = "return"
              /\ n = 0 => c = 0
              /\ n > 0 => /\ 2 * (c * n - total) <= n
                          /\ 2 * (total - c * n) <= n
              /\ (n = 2 /\ total = 120) => c = 60

C16_Witness ==
    /\ fn = "validate"
    /\ Len(ret) >= 1
    /\ "fields" \in DOMAIN arg
    /\ PresentFields(arg.fields) = {"event_name", "date"}
    /\ arg.fields["event_name"]["confidence"] = 80
    /\ arg.fields["date"]["confidence"] = 40
    /\ ret[1].value["confidence"] = 60

\* C17: validate emits exactly the applicable warnings, in the order
\* missing_critical_fields, low_confidence, low_field_confidence: the first
\* iff a critical field is absent or has a null or empty value, listing those
\* fields; the second iff the overall confidence is below 0.6; the third iff
\* some field has a non-empty value and a confidence below 0.6, listing every
\* such field and no other.
C17_ExactlyTheApplicableWarnings ==
    fn = "validate"
    => \A i \in 1..Len(ret) :
           LET fields == KeyGet(arg, "fields", EmptyDict)
               warnings == ret[i].value["warnings"]
               missing == {f \in CriticalSet : ~HasValue(fields, f)}
               low == {f \in PresentFields(fields) :
                          HasValue(fields, f) /\ fields[f]["confidence"] < 60}
               applicable ==
                   SelectSeq(<<"missing_critical_fields", "low_confidence",
                               "low_field_confidence">>,
                             LAMBDA t :
                                 \/ t = "missing_critical_fields" /\ missing # {}
                                 \/ t = "low_confidence" /\ ret[i].value["confidence"] < 60
                                 \/ t = "low_field_confidence" /\ low # {})
           IN /\ [k \in 1..Len(warnings) |-> warnings[k].type] = applicable
              /\ \A k \in 1..Len(warnings) :
                     /\ warnings[k].type = "missing_critical_fields"
                        => /\ Range(warnings[k].fields) = missing
                           /\ Len(warnings[k].fields) = Cardinality(missing)
                     /\ warnings[k].type = "low_confidence"
                        => warnings[k].confidence = ret[i].value["confidence"]
                     /\ warnings[k].type = "low_field_confidence"
                        => /\ Range(warnings[k].fields) = low
                           /\ Len(warnings[k].fields) = Cardinality(low)

C17_Witness ==
    /\ fn = "validate"
    /\ Len(ret) >= 1
    /\ Len(ret[1].value["warnings"]) = 3
    /\ ret[1].value["warnings"][1].fields = <<"venue_name">>
    /\ ret[1].value["warnings"][3].fields = <<"date">>
    /\ "ticket_price" \in DOMAIN arg.fields
    /\ arg.fields["ticket_price"]["value"] = NumV(0)

\* C18: normalize returns, without raising, for every envelope whose field
\* values are texts, numbers, lists, maps or null.
C18_NormalizeIsTotal ==
    fn = "normalize" => \A i \in 1..Len(ret) : ret[i].kind = "return"

\* C19: a second pass of normalize changes nothing: once normalize has run, a
\* further call leaves the field map as it is and ends as the first did, so
\* normalize(normalize(x)) = normalize(x); _normalize_email applied to its own
\* result returns it unchanged, and it maps "Foo@Bar.COM " to "foo@bar.com".
C19_SecondPassInv ==
    /\ fn \in {"normalize", "_normalize_email"}
       => \A i \in 2..Len(ret) : ret[i] = ret[1]
    /\ (fn = "normalize" /\ Len(ret) >= 1 /\ ret[1].kind = "return")
       => ret[1].value = arg
    /\ (fn = "_normalize_email" /\ arg = SFoo /\ Len(ret) >= 1)
       => ret[1].value = <<"f", "o", "o", "@", "b", "a", "r", ".", "c", "o", "m">>

C19_NormalizeIsIdempotent ==
    /\ []C19_SecondPassInv
    /\ [][(fn = "normalize" /\ Len(ret) >= 1) => (arg' = arg)]_vars

C19_Witness ==
    /\ fn = "normalize"
    /\ Len(ret) = 2
    /\ ret[2].kind = "return"
    /\ "time" \in DOMAIN arg.fields
    /\ "contact_email" \in DOMAIN arg.fields
    /\ ret[2].value.fields["time"]["value"]
          = StrV(<<"0", "9", ":", "0", "0", "-", "1", "7", ":", "0", "0">>)
    /\ ret[2].value.fields["time"]["normalized"] = TRUE
    /\ ret[2].value.fields["contact_email"]["value"] = StrV(<<"a", "@", "b", ".", "c">>)

\* C20: _normalize_phone turns a text with exactly 10 digits into
\* "(XXX) XXX-XXXX", a text with exactly 11 digits the first of which is 1
\* into "+1 (XXX) XXX-XXXX", and returns every other text unchanged.
C20_PhoneFormats ==
    fn = "_normalize_phone"
    => \A i \in 1..Len(ret) :
           LET s == IF i = 1 THEN arg ELSE ret[i - 1].value
               d == SelectSeq(s, IsDigit)
           IN ret[i] = Returns(
                  IF Len(d) = 10
                  THEN <<"(", d[1], d[2], d[3], ")", " ", d[4], d[5], d[6], "-",
                         d[7], d[8], d[9], d[10]>>
                  ELSE IF Len(d) = 11 /\ d[1] = "1"
                  THEN <<"+", "1", " ", "(", d[2], d[3], d[4], ")", " ", d[5], d[6], d[7],
                         "-", d[8], d[9], d[10], d[11]>>
                  ELSE s)

C20_Witness ==
    /\ fn = "_normalize_phone"
    /\ Len(arg) = 11
    /\ \A k \in 1..11 : IsDigit(arg[k])
    /\ arg[1] = "1"
    /\ Len(ret) >= 1
    /\ ret[1].value = <<"+", "1", " ", "(">> \o SubSeq(arg, 2, 4) \o <<")", " ">>
                      \o SubSeq(arg, 5, 7) \o <<"-">> \o SubSeq(arg, 8, 11)

\* C21, its parts.  An endpoint is rewritten to zero-padded 24-hour HH:MM.
C21_Endpoints ==
    (fn = "_normalize_time" /\ Len(ret) >= 1 /\ ClockOf(strip(arg)) # <<>>)
    => ret[1].value = ClockOf(strip(arg))

\* C21: a range of two endpoints becomes the two HH:MM joined by '-'.
C21_Ranges ==
    (fn = "_normalize_time" /\ Len(ret) >= 1)
    => \A p \in RangeSplits(arg) :
           (ClockOf(p[1]) # <<>> /\ ClockOf(p[2]) # <<>>)
           => ret[1].value = ClockOf(p[1]) \o <<"-">> \o ClockOf(p[2])

\* C21: a text that is a range comes back as a range of two HH:MM or as it
\* was, and a text without any digit comes back as it was.
C21_RangeOrAsIs ==
    (fn = "_normalize_time" /\ Len(ret) >= 1)
    => /\ IsRangeText(arg) => (ret[1].value = arg \/ IsClockRange(ret[1].value))
       /\ (\A k \in 1..Len(arg) : ~IsDigit(arg[k])) => ret[1].value = arg

\* C21: "9am-5pm" becomes "09:00-17:00" and "14:30" stays "14:30".
C21_Examples ==
    (fn = "_normalize_time" /\ Len(ret) >= 1)
    => /\ arg = <<"9", "a", "m", "-", "5", "p", "m">>
          => ret[1].value = <<"0", "9", ":", "0", "0", "-", "1", "7", ":", "0", "0">>
       /\ arg = <<"1", "4", ":", "3", "0">> => ret[1].value = arg

\* C21: _normalize_time rewrites an endpoint (an hour with :MM, am/pm or
\* both) to zero-padded 24-hour HH:MM, pm with hour < 12 adding 12 and am with
\* hour 12 giving 0; a value with a range separator has both endpoints
\* rewritten and joined by '-'; "9am-5pm" becomes "09:00-17:00", "14:30" stays;
\* what cannot be parsed is returned as it was.
C21_TimeNormalization ==
    /\ C21_Endpoints
    /\ C21_Ranges
    /\ C21_RangeOrAsIs
    /\ C21_Examples

\* C22: _normalize_url trims the value and prefixes "https://" exactly when the
\* trimmed value starts with neither "http://" nor "https://" and contains a
\* dot or starts with "www."; every other value is only trimmed.
C22_UrlNormalization ==
    fn = "_normalize_url"
    => \A i \in 1..Len(ret) :
           LET s == IF i = 1 THEN arg ELSE ret[i - 1].value
               t == strip(s)
               hasScheme == startswith(t, HttpPrefix) \/ startswith(t, HttpsPrefix)
               prefixed == ~hasScheme /\ (contains(t, <<".">>) \/ startswith(t, WwwPrefix))
           IN ret[i] = Returns(IF prefixed THEN HttpsPrefix \o t ELSE t)

C22_Witness ==
    /\ fn = "_normalize_url"
    /\ arg = <<" ", "w", "w", "w", ".", "x", ".", "i", "o", " ">>
    /\ Len(ret) = 2
    /\ ret[1].value = HttpsPrefix \o <<"w", "w", "w", ".", "x", ".", "i", "o">>
    /\ ret[2].value = ret[1].value

\* C23: in a returned envelope the overall confidence and the confidence of
\* every field lie in [0, 1], and so do the scorer's overall_complexity,
\* text_density and edge_density, whatever the extraction port answered.
C23_ValuesAreClamped ==
    Returned
    => /\ result.confidence \in 0..100
       /\ \A f \in PresentFields(result.fields) :
              result.fields[f]["confidence"] \in 0..100
       /\ result.complexity_score.overall_complexity \in 0..10000
       /\ result.complexity_score.text_density \in 0..100
       /\ result.complexity_score.edge_density \in 0..100

\* The names of the fields normalize rewrites.
RewrittenNames == {NormalizeOrder[i] : i \in 1..Len(NormalizeOrder)}

\* What one call of normalize may change in a field entry: the value of a
\* field it rewrites, together with normalized = true.
EntryFrame(f, old, new) ==
    IF old = PyNone \/ f \notin RewrittenNames
    THEN new = old
    ELSE LET changed == KeyGet(new, "value", NoneV) # KeyGet(old, "value", NoneV)
         IN /\ DOMAIN new \subseteq DOMAIN old \cup {"normalized"}
            /\ \A k \in DOMAIN old \ {"value", "normalized"} : new[k] = old[k]
            /\ changed => ("normalized" \in DOMAIN new /\ new["normalized"] = TRUE)
            /\ ~changed => new = old

\* C25: a call of normalize sets normalized = true on a field exactly when it
\* gave that field a different value, and leaves the rest as it was: confidence
\* and source of every field, every field outside the date, time, phone, email
\* and URL names, and every other key of the envelope (extra, route, raw,
\* complexity_score, error).
C25_NormalizeFrame ==
    [][(fn = "normalize" /\ Len(ret') = Len(ret) + 1)
       => LET old == KeyGet(arg, "fields", EmptyDict)
              new == arg'["fields"]
          IN /\ DOMAIN arg' = DOMAIN arg \cup {"fields"}
             /\ \A k \in DOMAIN arg \ {"fields"} : arg'[k] = arg[k]
             /\ DOMAIN new = DOMAIN old
             /\ \A f \in DOMAIN old : EntryFrame(f, old[f], new[f])
             /\ ret'[Len(ret')].kind = "return" => ret'[Len(ret')].value = arg']_vars

C25_Witness ==
    /\ fn = "normalize"
    /\ Len(ret) = 2
    /\ DOMAIN arg = DOMAIN PipelineEnvelope
    /\ \A k \in DOMAIN arg \ {"fields"} : arg[k] = PipelineEnvelope[k]
    /\ arg.fields["time"] =
           [value |-> StrV(<<"0", "9", ":", "0", "0", "-", "1", "7", ":", "0", "0">>),
            confidence |-> 85, source |-> "line 3", normalized |-> TRUE]
    /\ arg.fields["description"] = PipelineEnvelope.fields["description"]
    /\ arg.fields["date"] = PipelineEnvelope.fields["date"]

\* The port call ended with message m, raised or returned as {error: m}.
FailedWith(out, m) ==
    \/ out.kind = "raise" /\ out.msg = m
    \/ out.kind = "return" /\ "error" \in DOMAIN out.value /\ out.value["error"] = m

\* C26: a raise and a structured error of a port are handled alike.  After
\* either from text_to_json the vision route is called with route
\* "ocr_fallback_vision" and nothing of the cheap route; after either from
\* image_to_json with message m the returned envelope is the one determined
\* by m: same route, no fields, no extra, the same raw and error = m.
C26_RaiseAndErrorAlike ==
    /\ (\E m \in ErrorMessages : FailedWith(t2j, m))
       => /\ pc = "image_to_json" \/ Called("image_to_json")
          /\ route_override = "ocr_fallback_vision"
          /\ preserve_ocr = PyNone
          /\ ocr_envelope = PyNone
          /\ ~Called("is_extraction_sufficient")
    /\ \A m \in ErrorMessages :
           (Returned /\ FailedWith(i2j, m))
           => /\ DOMAIN result = EnvelopeKeys \cup {"error"}
              /\ result.type = "event_poster"
              /\ result.route = (IF TruthyStr(route_override) THEN route_override
                                 ELSE "vision")
              /\ result.complexity_score = complexity
              /\ result.fields = EmptyDict
              /\ result.extra = <<>>
              /\ result.raw = preserve_ocr
              /\ result.error = m
              /\ result.confidence = 0
              /\ Len(result.warnings) = 2

C26_Witness ==
    /\ Returned
    /\ t2j.kind = "return"
    /\ FailedWith(t2j, "429 quota exceeded")
    /\ i2j.kind = "raise"
    /\ result.route = "ocr_fallback_vision"
    /\ result.error = "429 quota exceeded"
    /\ result.raw = PyNone

\* C27: once the cheap route has called the OCR extractor, whatever the
\* requested language, the request does not fail there: extract returned a
\* result, an engine failure gave empty text and no blocks, and the route goes
\* on to text_to_json.
C27_TextPortFailureDegrades ==
    Called("ocr_extract")
    => /\ ocr_result # PyNone
       /\ "error" \in DOMAIN ocr_result
          => (ocr_result.text = <<>> /\ ocr_result.blocks = <<>>)
       /\ pc = "text_to_json" \/ Called("text_to_json")

\* C28: when the vision port was called after the cheap route, the fields and
\* extra of the envelope are those of the image_to_json response (none when it
\* failed), normalized; confidence and warnings are computed from these
\* fields; nothing the cheap route extracted is among them, and type, route
\* and complexity_score do not depend on it either: only raw can hold it.
C28_FallbackUsesVisionOnly ==
    (Called("text_to_json") /\ Called("image_to_json"))
    => LET vfields == IF PortFailed(i2j) THEN EmptyDict
                      ELSE KeyGet(i2j.value, "fields", EmptyDict)
           vextra == IF PortFailed(i2j) THEN <<>>
                     ELSE KeyGet(i2j.value, "extra", <<>>)
       IN /\ result.type = "event_poster"
          /\ result.route = "ocr_fallback_vision"
          /\ result.complexity_score = complexity
          /\ result.extra = vextra
          /\ ~Called("normalize") => result.fields = vfields
          /\ (Called("normalize") /\ pc # "raised")
             => result.fields = normalize_fields(vfields)
          /\ Returned
             => /\ \E above \in BOOLEAN :
                       result.confidence
                           = calculate_overall_confidence(normalize_fields(vfields), above)
                /\ result.warnings
                       = validate_warnings(normalize_fields(vfields), result.confidence)
                /\ DOMAIN result \ {"error"} = EnvelopeKeys

C28_Witness ==
    /\ Returned
    /\ Rejected
    /\ ~PortFailed(i2j)
    /\ "time" \in DOMAIN ocr_envelope.fields
    /\ DOMAIN result.fields = {"event_name"}
    /\ result.raw = CheapRaw
    /\ Len(result.warnings) = 1

\* C29: a returned envelope has an error key exactly when the image_to_json
\* call failed; it then has confidence 0.0 and exactly two warnings, first
\* missing_critical_fields naming event_name, date and venue_name, then
\* low_confidence.  A failed text_to_json followed by a successful
\* image_to_json leaves no error key.
C29_ErrorKeyIffVisionFailed ==
    Returned
    => LET failed(out) == \/ out.kind = "raise"
                          \/ out.kind = "return" /\ "error" \in DOMAIN out.value
       IN /\ ("error" \in DOMAIN result) <=> failed(i2j)
          /\ "error" \in DOMAIN result
             => /\ result.confidence = 0
                /\ Len(result.warnings) = 2
                /\ result.warnings[1].type = "missing_critical_fields"
                /\ Len(result.warnings[1].fields) = 3
                /\ Range(result.warnings[1].fields) = CriticalSet
                /\ result.warnings[2].type = "low_confidence"
                /\ result.warnings[2].confidence = 0
          /\ (failed(t2j) /\ i2j.kind = "return" /\ ~failed(i2j))
             => "error" \notin DOMAIN result

C29_Witness ==
    /\ Returned
    /\ i2j.kind = "return"
    /\ "error" \in DOMAIN i2j.value
    /\ "error" \in DOMAIN result
    /\ result.route = "vision"
    /\ result.confidence = 0
    /\ Len(result.warnings) = 2

\* C30: after every call of extract that ran the engine, the engine of the
\* extractor is the one for the language that call asked for, the default
\* when it gave none, whatever the earlier calls asked for.
C30_EngineLanguageIsPerCall ==
    (fn = "extract" /\ Len(ret) >= 1 /\ ret[Len(ret)].kind = "return")
    => engine_lang = (IF TruthyStr(arg[Len(ret)]) THEN arg[Len(ret)]
                      ELSE OCR_DEFAULT_LANG)

\* C24: whatever the interleaving of the stages of two requests, each request
\* answers what it answers when served alone: the same status and the same
\* envelope (or the same exception), and it has only used its own extractor.
C24_ConcurrentRequestsDoNotInterfere ==
    \A r \in Requests :
        lanes[r].pc = "responded"
        => /\ lanes[r].http_status = RunAlone(lanes[r]).http_status
           /\ lanes[r].result = RunAlone(lanes[r]).result
           /\ lanes[r].exc = RunAlone(lanes[r]).exc
           /\ lanes[r] = RunAlone(lanes[r])

C24_Witness ==
    /\ \A r \in Requests : lanes[r].pc = "responded" /\ lanes[r].http_status = 200
    /\ lanes[1].params.lang = "fr"
    /\ lanes[2].params.lang = "en"
    /\ extractors[1] = "fr"
    /\ extractors[2] = "en"
    /\ \A r \in Requests : "ocr_text" \in DOMAIN lanes[r].result.raw
    /\ lanes[1].result.raw.ocr_text = <<"Hall 4">>
    /\ lanes[2].result.raw.ocr_text = <<"EXPO 2026">>

====
